---- MODULE Spec2Model ----
(***************************************************************************)
(* Model of the TripIt authentication flow (src/auth.ts as concatenated in *)
(* src/src/tripit.ts, lines 2130-2371): token cache, redirect following,   *)
(* login form submission, state/code validation and token exchange.        *)
(* The remote servers and the clock are the environment; every response    *)
(* is a nondeterministic input drawn from a small explicit set.            *)
(***************************************************************************)
EXTENDS Integers, Sequences, FiniteSets, TLC

(***************************************************************************)
(* Bounds of the model                                                     *)
(***************************************************************************)
MaxNow == 1000
TickMs == 500
MaxCalls == 2

(***************************************************************************)
(* Program constants                                                       *)
(***************************************************************************)
HopLimit_Six == 5 + 1
HopLimit == 5
ExpiryMarginSec == 30
MsPerSec == 1000

BASE_URL == "https://www.tripit.com"
API_BASE_URL == "https://api.tripit.com"
REDIRECT_URI == "com.tripit://completeAuthorize"
SCOPES == "offline_access email"

(***************************************************************************)
(* Absent values: a missing attribute / header / JSON field (undefined or  *)
(* null in the program), and a missing or NaN number.                      *)
(***************************************************************************)
NoAttr == "<absent>"
NoNum == 0 - 999999

Falsy(s) == s = NoAttr \/ s = ""

(***************************************************************************)
(* URLs.  An absolute URL is [origin, path]; a reference (Location header, *)
(* form action) is the same record with origin "" when it is relative.     *)
(***************************************************************************)
Url(o, p) == [origin |-> o, path |-> p]
NoLoc == Url(NoAttr, "")

\* new URL(ref, base).href for path-absolute and absolute references
ResolveUrl(ref, base) ==
    IF ref.origin = ""
    THEN (IF ref.path = "" THEN base ELSE Url(base.origin, ref.path))
    ELSE ref

HomeUrl == Url(BASE_URL, "/home")
AuthorizeUrl == Url(BASE_URL, "/auth/oauth2/authorize")
TokenUrl == Url(API_BASE_URL, "/oauth2/token")

(***************************************************************************)
(* Name/value maps (URLSearchParams bodies, Record<string,string>)         *)
(***************************************************************************)
EmptyMap == [k \in {} |-> ""]
MapSet(m, k, v) == [x \in (DOMAIN m) \cup {k} |-> IF x = k THEN v ELSE m[x]]

(***************************************************************************)
(* TripItConfig                                                            *)
(***************************************************************************)
Configs ==
    { [clientId |-> "client1", clientSecret |-> "secret1",
       username |-> "user1", password |-> "pass1"] }

\* the configurations of repeated calls: the one above, the same with another
\* clientSecret, and another account's
AllConfigs ==
    Configs
    \cup { [clientId |-> "client1", clientSecret |-> "secret2",
            username |-> "user1", password |-> "pass1"],
           [clientId |-> "client2", clientSecret |-> "secret1",
            username |-> "user2", password |-> "pass2"] }

(***************************************************************************)
(* Token cache file                                                        *)
(***************************************************************************)
CacheFile(k, at, ei, tt, sc, ea) ==
    [kind |-> k, access_token |-> at, expires_in |-> ei,
     token_type |-> tt, scope |-> sc, expiresAt |-> ea]

\* no file at TOKEN_CACHE_FILE
AbsentFile == CacheFile("absent", NoAttr, NoNum, NoAttr, NoAttr, NoNum)
\* a file whose content JSON.parse rejects
CorruptFile == CacheFile("corrupt", NoAttr, NoNum, NoAttr, NoAttr, NoNum)
\* what loadCachedToken returns when there is nothing to return
NullCached == CacheFile("null", NoAttr, NoNum, NoAttr, NoAttr, NoNum)

\* a file holding a JSON object with an expiresAt far ahead and no token
TokenlessFile == CacheFile("record", NoAttr, NoNum, NoAttr, NoAttr, 1000000)

InitExpiresAt == {500}

InitCacheFiles ==
    {AbsentFile, CorruptFile, TokenlessFile}
    \cup { CacheFile("record", "tok_old", 3600, "Bearer", SCOPES, ea) :
             ea \in InitExpiresAt }

loadCachedToken(file) ==
    IF file.kind = "record" THEN file ELSE NullCached

\* cached && cached.expiresAt > Date.now()
CacheHit_Inverted(cached, t) ==
    /\ cached.kind = "record"
    /\ cached.expiresAt # NoNum
    /\ cached.expiresAt < t
CacheHit_Geq(cached, t) ==
    /\ cached.kind = "record"
    /\ cached.expiresAt # NoNum
    /\ cached.expiresAt >= t
CacheHit(cached, t) ==
    /\ cached.kind = "record"
    /\ cached.expiresAt # NoNum
    /\ cached.expiresAt > t

\* expiresAt: Date.now() + (tokenResponse.expires_in - 30) * 1000
ExpiresAt_FromEpoch(t, expires_in) ==
    IF expires_in = NoNum THEN NoNum
    ELSE (expires_in - ExpiryMarginSec) * MsPerSec
ExpiresAt_NoMargin(t, expires_in) ==
    IF expires_in = NoNum THEN NoNum
    ELSE t + expires_in * MsPerSec
ExpiresAt(t, expires_in) ==
    IF expires_in = NoNum THEN NoNum
    ELSE t + (expires_in - ExpiryMarginSec) * MsPerSec

\* the record cacheToken writes, as JSON.stringify / JSON.parse carry it
cacheToken_WholeResponse(tokenResponse, t) ==
    [kind |-> "record", access_token |-> tokenResponse.access_token,
     expires_in |-> tokenResponse.expires_in,
     token_type |-> tokenResponse.token_type, scope |-> tokenResponse.scope,
     expiresAt |-> ExpiresAt(t, tokenResponse.expires_in),
     text |-> tokenResponse.text]
cacheToken(tokenResponse, t) ==
    CacheFile("record", tokenResponse.access_token, tokenResponse.expires_in,
              tokenResponse.token_type, tokenResponse.scope,
              ExpiresAt(t, tokenResponse.expires_in))

\* fs.writeFileSync(TOKEN_CACHE_FILE, ...): the file is opened with
\* truncation, then the content replaces whatever the file held
TruncatedFile == CorruptFile
writeFileSync_KeepExisting(file, content) ==
    IF file.kind = "record" THEN file ELSE content
writeFileSync(file, content) == content

(***************************************************************************)
(* PKCE material                                                           *)
(***************************************************************************)
\* crypto.randomBytes(16).toString("hex"); the two values differ in case only
States == {"ab", "AB"}
\* the draws of one attempt: a state (randomBytes(16)) and a code verifier
\* (randomBytes(32))
PkceDraws == { <<"ab", "v1">>, <<"AB", "v2">> }

\* base64url(sha256(codeVerifier)), an injective digest of the verifier
S256(v) == IF v = "v1" THEN "ch_v1" ELSE "ch_v2"

(***************************************************************************)
(* HTML documents: the forms of a page, each with its action attribute and *)
(* its input elements in document order.                                   *)
(***************************************************************************)
Input(n, v) == [name |-> n, value |-> v]
Form(a, ins) == [action |-> a, inputs |-> ins]
Page(fs) == [forms |-> fs]

EmptyPage == Page(<<>>)
\* the fixture of the specification: csrf_token, username, password
LoginPage ==
    Page(<< Form(Url("", "/account/login"),
                 << Input("csrf_token", "abc123"), Input("username", ""),
                    Input("password", "") >>) >>)
\* a form without an action attribute
NoActionPage ==
    Page(<< Form(NoLoc,
                 << Input("csrf_token", "abc123"), Input("username", ""),
                    Input("password", "") >>) >>)
\* a form with action=""
EmptyActionPage ==
    Page(<< Form(Url("", ""),
                 << Input("username", ""), Input("password", "") >>) >>)
\* absolute action on another host; a hidden input and a checkbox sharing
\* one name, a prefilled username, a password input without value attribute
\* and an unnamed submit button
DupNamePage ==
    Page(<< Form(Url("https://id.tripit.com", "/submit"),
                 << Input("remember", "0"), Input("remember", "1"),
                    Input("username", "previous"), Input("password", NoAttr),
                    Input(NoAttr, "Sign in") >>) >>)
\* a search form ahead of the login form
TwoFormPage ==
    Page(<< Form(Url("", "/search"), << Input("q", "") >>),
            Form(Url("", "/account/login"),
                 << Input("csrf_token", "abc123"), Input("username", ""),
                    Input("password", "") >>) >>)
\* a form with no password input
NoPasswordPage ==
    Page(<< Form(Url("", "/account/login"),
                 << Input("username", "") >>) >>)

Pages ==
    {EmptyPage, LoginPage, NoActionPage, EmptyActionPage, DupNamePage,
     TwoFormPage, NoPasswordPage}

\* $("form input"): the inputs of every form, in document order
RECURSIVE FormInputsFrom(_, _)
FormInputsFrom(forms, i) ==
    IF i > Len(forms) THEN <<>>
    ELSE forms[i].inputs \o FormInputsFrom(forms, i + 1)

FormInputs(page) == FormInputsFrom(page.forms, 1)

\* $('form input[name="..."]').length > 0
HasInput(page, n) ==
    \E i \in 1..Len(FormInputs(page)) : FormInputs(page)[i].name = n

\* the check of followRedirects for a login form
HasLoginForm_UsernameOnly(page) == HasInput(page, "username")
HasLoginForm(page) == HasInput(page, "username") /\ HasInput(page, "password")

\* $("form").attr("action"): the attribute of the first form of the page
FormActionAttr(page) ==
    IF Len(page.forms) = 0 THEN NoLoc ELSE page.forms[1].action

\* !formActionUrl
NoFormAction(a) == a = NoLoc \/ a = Url("", "")

\* the .each loop of submitLogin: submitData[name] = value || ""
RECURSIVE CollectInputs(_, _, _)
CollectInputs(ins, i, acc) ==
    IF i > Len(ins) THEN acc
    ELSE CollectInputs(ins, i + 1,
            IF Falsy(ins[i].name) THEN acc
            ELSE MapSet(acc, ins[i].name,
                        IF Falsy(ins[i].value) THEN "" ELSE ins[i].value))

\* submitData after the credentials are filled in
SubmitData_NoOverwrite(page, cfg) ==
    CollectInputs(FormInputs(page), 1,
        [k \in {"username", "password"} |->
            IF k = "username" THEN cfg.username ELSE cfg.password])
SubmitData(page, cfg) ==
    MapSet(MapSet(CollectInputs(FormInputs(page), 1, EmptyMap),
                  "username", cfg.username),
           "password", cfg.password)

(***************************************************************************)
(* Requests, as the flow hands them to fetch                               *)
(***************************************************************************)
Request(k, m, u, q, b, o, r) ==
    [kind |-> k, method |-> m, url |-> u, params |-> q, body |-> b,
     origin |-> o, referer |-> r, cookies |-> {}]

(***************************************************************************)
(* Session transport: fetchCookie(fetch, new CookieJar()), lines 2308-2310 *)
(***************************************************************************)
\* a cookie, named by the origin that set it and the call it was set in
Cookie(o, c) == [origin |-> o, call |-> c]

\* new CookieJar(): the jar of a call, whatever an earlier jar held
NewCookieJar_Shared(old) == old
NewCookieJar(old) == {}

\* the request as fetchWithCookie sends it: with the cookies of the jar that
\* match the URL
fetchWithCookie(req, j) ==
    [req EXCEPT !.cookies = { c \in j : c.origin = req.url.origin }]

\* the jar after a response from url; every response sets a cookie
SetCookie(j, url, c) == j \cup {Cookie(url.origin, c)}

WarmupRequest == Request("warmup", "GET", HomeUrl, EmptyMap, EmptyMap,
                         NoAttr, NoLoc)

\* authUrl of authenticate()
AuthorizeParams_PlainChallenge(cfg, st, verifier) ==
    [k \in {"client_id", "response_type", "redirect_uri", "scope", "state",
            "code_challenge", "code_challenge_method", "response_mode",
            "action"} |->
        CASE k = "client_id" -> cfg.clientId
          [] k = "response_type" -> "code"
          [] k = "redirect_uri" -> REDIRECT_URI
          [] k = "scope" -> SCOPES
          [] k = "state" -> st
          [] k = "code_challenge" -> verifier
          [] k = "code_challenge_method" -> "S256"
          [] k = "response_mode" -> "query"
          [] OTHER -> "sign_in"]
AuthorizeParams(cfg, st, verifier) ==
    [k \in {"client_id", "response_type", "redirect_uri", "scope", "state",
            "code_challenge", "code_challenge_method", "response_mode",
            "action"} |->
        CASE k = "client_id" -> cfg.clientId
          [] k = "response_type" -> "code"
          [] k = "redirect_uri" -> REDIRECT_URI
          [] k = "scope" -> SCOPES
          [] k = "state" -> st
          [] k = "code_challenge" -> S256(verifier)
          [] k = "code_challenge_method" -> "S256"
          [] k = "response_mode" -> "query"
          [] OTHER -> "sign_in"]

AuthorizeRequest(cfg, st, verifier) ==
    Request("resolve", "GET", AuthorizeUrl, AuthorizeParams(cfg, st, verifier),
            EmptyMap, NoAttr, NoLoc)

\* the GET of one followRedirects iteration after a redirect
RedirectRequest(u) ==
    Request("resolve", "GET", u, EmptyMap, EmptyMap, NoAttr, NoLoc)

\* the POST of submitLogin
LoginRequest(finalUrl, submitData, formAction) ==
    Request("login", "POST", finalUrl, EmptyMap, submitData,
            BASE_URL, formAction)

\* the POST of exchangeCodeForToken
TokenParams_WithSecret(cfg, code, verifier) ==
    [k \in {"grant_type", "code", "redirect_uri", "client_id",
            "client_secret", "code_verifier"} |->
        CASE k = "grant_type" -> "authorization_code"
          [] k = "code" -> code
          [] k = "redirect_uri" -> REDIRECT_URI
          [] k = "client_id" -> cfg.clientId
          [] k = "client_secret" -> cfg.clientSecret
          [] OTHER -> verifier]
TokenParams(cfg, code, verifier) ==
    [k \in {"grant_type", "code", "redirect_uri", "client_id",
            "code_verifier"} |->
        CASE k = "grant_type" -> "authorization_code"
          [] k = "code" -> code
          [] k = "redirect_uri" -> REDIRECT_URI
          [] k = "client_id" -> cfg.clientId
          [] OTHER -> verifier]

TokenRequest(cfg, code, verifier) ==
    Request("token", "POST", TokenUrl, EmptyMap,
            TokenParams(cfg, code, verifier), NoAttr, NoLoc)

(***************************************************************************)
(* Responses of the login-form resolution (followRedirects)                *)
(***************************************************************************)
Locations ==
    { Url("", "/account/login"),
      Url("https://id.tripit.com", "/account/login") }

\* res.status === 302 || res.status === 303
IsRedirect(status) == status = 302 \/ status = 303

Statuses3xx == {301, 302, 303, 307, 308}

ResolveResponses ==
    { [status |-> 200, location |-> NoLoc, page |-> p] : p \in Pages }
    \cup { [status |-> st, location |-> l, page |-> EmptyPage] :
             st \in Statuses3xx, l \in Locations \cup {NoLoc} }
    \cup { [status |-> 301, location |-> l, page |-> LoginPage] :
             l \in Locations }

(***************************************************************************)
(* Redirect targets: the string submitLogin returns, as new URL(target,    *)
(* "http://localhost") sees it: parsable or not, and its query pairs.      *)
(***************************************************************************)
Target(ok, q) == [parsable |-> ok, query |-> q]
NoTarget == Target(FALSE, << <<NoAttr, NoAttr>> >>)
BadTarget == Target(FALSE, <<>>)

Codes == {"XYZ"}

Targets ==
    { Target(TRUE, << <<"code", c>>, <<"state", s>> >>) :
        c \in Codes \cup {""}, s \in States }
    \cup { Target(TRUE, << <<"state", s>> >>) : s \in States }
    \cup { Target(TRUE, << <<"code", c>> >>) : c \in Codes }
    \cup { Target(TRUE, << <<"state", "ab">>, <<"code", "XYZ">>,
                          <<"state", "AB">> >>),
           BadTarget }

\* URLSearchParams.get(name): the first value of that name, or null
RECURSIVE SearchGetFrom(_, _, _)
SearchGetFrom(q, name, i) ==
    IF i > Len(q) THEN NoAttr
    ELSE IF q[i][1] = name THEN q[i][2]
    ELSE SearchGetFrom(q, name, i + 1)

SearchGet(target, name) == SearchGetFrom(target.query, name, 1)

\* returnedState !== state
Lower(s) == IF s = "AB" THEN "ab" ELSE s
StateMismatch_IgnoreCase(returned, st) == Lower(returned) # Lower(st)
StateMismatch(returned, st) == returned # st

(***************************************************************************)
(* Responses to the login POST                                             *)
(***************************************************************************)
\* a meta refresh content attribute: text before the target, and the target
Meta(prefix, t) == [prefix |-> prefix, target |-> t]
NoMeta == Meta(NoAttr, NoTarget)

\* a 200 body: text of .error-message, of .alert-error, the content of the
\* meta refresh tag, and the target of a window.location assignment
LoginBody(e, a, m, sc) ==
    [errorMessage |-> e, alertError |-> a, meta |-> m, script |-> sc]

GoodTarget(s) == Target(TRUE, << <<"code", "XYZ">>, <<"state", s>> >>)

LoginBodies ==
    { LoginBody("", "", NoMeta, NoTarget),
      LoginBody("Invalid password", "", NoMeta, NoTarget),
      LoginBody("", "Account locked", NoMeta, NoTarget),
      LoginBody("Invalid password", "", Meta("0;URL=", GoodTarget("ab")),
                GoodTarget("ab")),
      LoginBody("", "", Meta("0;URL=", GoodTarget("AB")), GoodTarget("ab")),
      LoginBody("", "", Meta("0;url=", GoodTarget("ab")), GoodTarget("AB")),
      LoginBody("", "", Meta("5", NoTarget), NoTarget),
      LoginBody("", "", NoMeta, GoodTarget("ab")) }

EmptyBody == LoginBody("", "", NoMeta, NoTarget)

LoginResponses ==
    { [status |-> 200, location |-> NoTarget, body |-> b] : b \in LoginBodies }
    \cup { [status |-> 302, location |-> l, body |-> EmptyBody] :
             l \in Targets \cup {NoTarget} }
    \cup { [status |-> st, location |-> l, body |-> EmptyBody] :
             st \in {303, 403}, l \in {GoodTarget("AB"), NoTarget} }
    \cup { [status |-> 500, location |-> NoTarget, body |-> EmptyBody],
           [status |-> 302, location |-> GoodTarget("AB"),
            body |-> LoginBody("Invalid password", "",
                               Meta("0;URL=", GoodTarget("ab")),
                               GoodTarget("ab"))],
           [status |-> 403, location |-> NoTarget,
            body |-> LoginBody("", "", NoMeta, GoodTarget("ab"))] }

\* meta.match(/URL=(.+)$/)
MetaMatch(m) ==
    IF m.prefix = "0;URL=" /\ m.target # NoTarget THEN m.target ELSE NoTarget

(***************************************************************************)
(* Failures: the Error a step throws                                       *)
(***************************************************************************)
Error(m, st, b) == [msg |-> m, status |-> st, body |-> b]
NoError == Error("", 0, "")
Fail(m) == Error(m, 0, "")

\* outcome of the response handling of submitLogin (lines 2237-2272)
Outcome(t, e) == [target |-> t, error |-> e]

\* the 200 branch of submitLogin (lines 2249-2270): error element, then the
\* meta refresh tag, then the script assignment
BodyOutcome_ScriptFirst(body) ==
    LET errorMsg == IF body.errorMessage # ""
                    THEN body.errorMessage ELSE body.alertError
    IN IF errorMsg # ""
       THEN Outcome(NoTarget, Error("Login failed: ", 0, errorMsg))
       ELSE IF body.script # NoTarget
       THEN Outcome(body.script, NoError)
       ELSE IF body.meta # NoMeta /\ MetaMatch(body.meta) # NoTarget
       THEN Outcome(MetaMatch(body.meta), NoError)
       ELSE Outcome(NoTarget,
                    Fail("Could not find redirect URL in login response"))
BodyOutcome_ErrorLast(body) ==
    LET errorMsg == IF body.errorMessage # ""
                    THEN body.errorMessage ELSE body.alertError
    IN IF body.meta # NoMeta /\ MetaMatch(body.meta) # NoTarget
       THEN Outcome(MetaMatch(body.meta), NoError)
       ELSE IF body.script # NoTarget
       THEN Outcome(body.script, NoError)
       ELSE IF errorMsg # ""
       THEN Outcome(NoTarget, Error("Login failed: ", 0, errorMsg))
       ELSE Outcome(NoTarget,
                    Fail("Could not find redirect URL in login response"))
BodyOutcome(body) ==
    LET errorMsg == IF body.errorMessage # ""
                    THEN body.errorMessage ELSE body.alertError
    IN IF errorMsg # ""
       THEN Outcome(NoTarget, Error("Login failed: ", 0, errorMsg))
       ELSE IF body.meta # NoMeta /\ MetaMatch(body.meta) # NoTarget
       THEN Outcome(MetaMatch(body.meta), NoError)
       ELSE IF body.script # NoTarget
       THEN Outcome(body.script, NoError)
       ELSE Outcome(NoTarget,
                    Fail("Could not find redirect URL in login response"))

LoginOutcome_BodyOn403(res) ==
    IF res.status = 302 \/ res.status = 303 THEN
        (IF res.location = NoTarget
         THEN Outcome(NoTarget, Fail("No redirect location after login"))
         ELSE Outcome(res.location, NoError))
    ELSE IF res.status = 200 \/ res.status = 403 THEN BodyOutcome(res.body)
    ELSE Outcome(NoTarget,
                 Error("Unexpected login response status: ", res.status, ""))
LoginOutcome(res) ==
    IF res.status = 403 THEN Outcome(NoTarget, Fail("Login failed (403)"))
    ELSE IF res.status = 302 \/ res.status = 303 THEN
        (IF res.location = NoTarget
         THEN Outcome(NoTarget, Fail("No redirect location after login"))
         ELSE Outcome(res.location, NoError))
    ELSE IF res.status = 200 THEN BodyOutcome(res.body)
    ELSE Outcome(NoTarget,
                 Error("Unexpected login response status: ", res.status, ""))

\* authenticate(), lines 2350-2360: the redirect target is parsed, its state
\* compared with the generated one, then its code looked up
ValidateRedirect_CodeFirst(target, st) ==
    IF ~target.parsable THEN Fail("Invalid URL")
    ELSE IF Falsy(SearchGet(target, "code"))
    THEN Fail("Authorization code not found in redirect")
    ELSE IF StateMismatch(SearchGet(target, "state"), st)
    THEN Fail("OAuth state mismatch")
    ELSE NoError
ValidateRedirect(target, st) ==
    IF ~target.parsable THEN Fail("Invalid URL")
    ELSE IF StateMismatch(SearchGet(target, "state"), st)
    THEN Fail("OAuth state mismatch")
    ELSE IF Falsy(SearchGet(target, "code"))
    THEN Fail("Authorization code not found in redirect")
    ELSE NoError

(***************************************************************************)
(* Responses of the token endpoint                                         *)
(***************************************************************************)
\* json: "object" for a JSON object, "null" for the JSON value null,
\* "invalid" for a body res.json() rejects
TokenBody(txt, j, at, ei, tt, sc) ==
    [text |-> txt, json |-> j, access_token |-> at, expires_in |-> ei,
     token_type |-> tt, scope |-> sc]

ExpiresIns == {29, 31, NoNum}

TokenBodies ==
    { TokenBody("{token}", "object", "tok_new", ei, "Bearer", SCOPES) :
        ei \in ExpiresIns }
    \cup { TokenBody("{\"error\":\"invalid_grant\"}", "object", NoAttr, NoNum,
                     NoAttr, NoAttr),
           TokenBody("{\"access_token\":\"\"}", "object", "", 31, "Bearer",
                     SCOPES),
           TokenBody("null", "null", NoAttr, NoNum, NoAttr, NoAttr),
           TokenBody("<html>", "invalid", NoAttr, NoNum, NoAttr, NoAttr) }

TokenStatuses == {201, 400, 500}

ErrorTokenBody ==
    TokenBody("{\"error\":\"invalid_grant\"}", "object", NoAttr, NoNum,
              NoAttr, NoAttr)

TokenResponses ==
    { [status |-> 200, body |-> b] : b \in TokenBodies }
    \cup { [status |-> st, body |-> ErrorTokenBody] :
             st \in TokenStatuses }
    \cup { [status |-> 400,
            body |-> TokenBody("{token}", "object", "tok_new", 31, "Bearer",
                               SCOPES)] }

\* res.ok
ResOk_Below500(status) == status >= 200 /\ status < 500
ResOk(status) == status >= 200 /\ status <= 299

\* !tokenResponse.access_token
MissingAccessToken_OnlyAbsent(tr) == tr.access_token = NoAttr
MissingAccessToken(tr) == Falsy(tr.access_token)

\* what the call does with the answer of the token endpoint (lines 2294-2299
\* and 2364-2370): the Error it throws, if any, and whether cacheToken ran
Exchange(e, w) == [error |-> e, cached |-> w]

ExchangeOutcome_CacheFirst(status, body) ==
    IF ~ResOk(status)
    THEN Exchange(Error("Token exchange failed", status, body.text), FALSE)
    ELSE IF body.json = "invalid"
    THEN Exchange(Fail("Unexpected token in JSON"), FALSE)
    ELSE IF body.json = "null"
    THEN Exchange(Fail("Cannot read properties of null"), FALSE)
    ELSE IF MissingAccessToken(body)
    THEN Exchange(Fail("No access_token in response"), TRUE)
    ELSE Exchange(NoError, TRUE)
ExchangeOutcome(status, body) ==
    IF ~ResOk(status)
    THEN Exchange(Error("Token exchange failed", status, body.text), FALSE)
    ELSE IF body.json = "invalid"
    THEN Exchange(Fail("Unexpected token in JSON"), FALSE)
    ELSE IF body.json = "null"
    THEN Exchange(Fail("Cannot read properties of null"), FALSE)
    ELSE IF MissingAccessToken(body)
    THEN Exchange(Fail("No access_token in response"), FALSE)
    ELSE Exchange(NoError, TRUE)

(***************************************************************************)
(* State                                                                   *)
(***************************************************************************)
VARIABLES
    cache,        \* content of TOKEN_CACHE_FILE
    now,          \* Date.now(), in ms
    calls,        \* authenticate() calls started so far
    pc,           \* position of the running authenticate() call
    config,       \* the TripItConfig of the running call
    requests,     \* requests the running call has handed to fetch, in order
    result,       \* value the call returned
    err,          \* Error the call threw
    cacheBefore,  \* content of the cache file when the call started
    startedAt,    \* Date.now() as the cache check of the call read it
    cacheWrites,  \* writes of the cache file by the running call
    codeVerifier, \* PKCE verifier of the running call
    state,        \* OAuth state of the running call
    currentUrl,   \* currentUrl of followRedirects
    hop,          \* loop counter i of followRedirects
    html,         \* page followRedirects returned
    formAction,   \* formAction followRedirects returned
    redirectUrl,  \* target submitLogin returned
    lastResolve,  \* last response handled by followRedirects
    lastLogin,    \* response to the login POST
    lastToken,    \* response of the token endpoint
    answered,     \* fetch calls of this call that have settled
    jar,          \* cookies of the jar the latest full flow created
    lastWrite,    \* the latest completed write of the cache file, and its time
    peerPc,       \* position of an authenticate() call in another process
    peerRead,     \* content of the cache file when that call read it
    peerStartedAt,\* Date.now() as the cache check of that call read it
    peerRecord,   \* the record that call is writing or has written
    peerResult,   \* value that call returned
    accessToken,  \* this.accessToken of the TripIt client
    authenticated,\* an authenticate() of the client has resolved
    apiPc,        \* position of the running resource operation
    apiOp,        \* the operation and its params
    apiRequests,  \* requests the operation has handed to fetch, in order
    apiErr,       \* Error the operation threw
    apiFetched    \* the existing object an update operation fetched

vars == <<cache, now, calls, pc, config, requests, result, err, cacheBefore,
          startedAt, cacheWrites, codeVerifier, state, currentUrl, hop, html, formAction,
          redirectUrl, lastResolve, lastLogin, lastToken, answered, jar, lastWrite,
          peerPc, peerRead, peerStartedAt, peerRecord, peerResult,
          accessToken, authenticated, apiPc, apiOp, apiRequests, apiErr,
          apiFetched>>

\* the call in the other process
peerVars == <<peerPc, peerRead, peerStartedAt, peerRecord, peerResult>>
\* the TripIt client of this process and its running operation
clientVars == <<accessToken, authenticated, apiPc, apiOp, apiRequests, apiErr,
                apiFetched>>
\* the call in this process, and the client
selfVars == <<calls, pc, config, requests, result, err, cacheBefore,
              startedAt, cacheWrites, codeVerifier, state, currentUrl, hop,
              html, formAction, redirectUrl, lastResolve, lastLogin,
              lastToken, answered, jar, clientVars>>

NoWrite == [by |-> "none", token |-> NoAttr, at |-> NoNum]

\* no operation is running; nothing was fetched
NoOp == [kind |-> NoAttr, resource |-> NoAttr, params |-> EmptyMap,
         segments |-> <<>>]
NoObject == [kind |-> "none", fields |-> EmptyMap,
             Segment |-> [kind |-> "none", items |-> <<>>]]

NoConfig == [clientId |-> NoAttr, clientSecret |-> NoAttr,
             username |-> NoAttr, password |-> NoAttr]
NoResolve == [status |-> 0, location |-> NoLoc, page |-> EmptyPage]
NoLogin == [status |-> 0, location |-> NoTarget, body |-> EmptyBody]
NoToken == [status |-> 0,
            body |-> TokenBody("", "invalid", NoAttr, NoNum, NoAttr, NoAttr)]

\* the locals of a call before it has set them
FreshLocals ==
    /\ codeVerifier' = NoAttr
    /\ state' = NoAttr
    /\ currentUrl' = NoLoc
    /\ hop' = 0
    /\ html' = EmptyPage
    /\ formAction' = NoLoc
    /\ redirectUrl' = NoTarget
    /\ lastResolve' = NoResolve
    /\ lastLogin' = NoLogin
    /\ lastToken' = NoToken

Init ==
    /\ cache \in InitCacheFiles
    /\ now = 0
    /\ calls = 0
    /\ pc = "idle"
    /\ config = NoConfig
    /\ requests = <<>>
    /\ result = NoAttr
    /\ err = NoError
    /\ cacheBefore = cache
    /\ startedAt = 0
    /\ cacheWrites = 0
    /\ codeVerifier = NoAttr
    /\ state = NoAttr
    /\ currentUrl = NoLoc
    /\ hop = 0
    /\ html = EmptyPage
    /\ formAction = NoLoc
    /\ redirectUrl = NoTarget
    /\ lastResolve = NoResolve
    /\ lastLogin = NoLogin
    /\ lastToken = NoToken
    /\ answered = 0
    /\ jar = {}
    /\ lastWrite = NoWrite
    /\ peerPc = "idle"
    /\ peerRead = AbsentFile
    /\ peerStartedAt = 0
    /\ peerRecord = AbsentFile
    /\ peerResult = NoAttr
    /\ accessToken = NoAttr
    /\ authenticated = FALSE
    /\ apiPc = "idle"
    /\ apiOp = NoOp
    /\ apiRequests = <<>>
    /\ apiErr = NoError
    /\ apiFetched = NoObject

\* the call throws e
Throw(e) ==
    /\ pc' = "failed"
    /\ err' = e
    /\ UNCHANGED <<result, cache, cacheWrites>>

(***************************************************************************)
(* authenticate(), lines 2302-2313: cache check, then the warm-up GET      *)
(***************************************************************************)
AuthenticateBegin_OwnAccount(cfg) ==
    /\ pc = "idle"
    /\ UNCHANGED <<lastWrite, peerVars, clientVars>>
    /\ answered' = 0
    /\ calls < MaxCalls
    /\ calls' = calls + 1
    /\ config' = cfg
    /\ cacheBefore' = cache
    /\ startedAt' = now
    /\ cacheWrites' = 0
    /\ err' = NoError
    /\ FreshLocals
    /\ LET cached == loadCachedToken(cache)
       IN IF CacheHit(cached, now) /\ cfg.username = "user1"
          THEN /\ pc' = "done"
               /\ result' = cached.access_token
               /\ requests' = <<>>
               /\ UNCHANGED jar
          ELSE /\ pc' = "warmup"
               /\ result' = NoAttr
               /\ jar' = NewCookieJar(jar)
               /\ requests' = <<fetchWithCookie(WarmupRequest,
                                                NewCookieJar(jar))>>
    /\ UNCHANGED <<cache, now>>
AuthenticateBegin(cfg) ==
    /\ pc = "idle"
    /\ UNCHANGED <<lastWrite, peerVars, clientVars>>
    /\ answered' = 0
    /\ calls < MaxCalls
    /\ calls' = calls + 1
    /\ config' = cfg
    /\ cacheBefore' = cache
    /\ startedAt' = now
    /\ cacheWrites' = 0
    /\ err' = NoError
    /\ FreshLocals
    /\ LET cached == loadCachedToken(cache)
       IN IF CacheHit(cached, now)
          THEN /\ pc' = "done"
               /\ result' = cached.access_token
               /\ requests' = <<>>
               /\ UNCHANGED jar
          ELSE /\ pc' = "warmup"
               /\ result' = NoAttr
               /\ jar' = NewCookieJar(jar)
               /\ requests' = <<fetchWithCookie(WarmupRequest,
                                                NewCookieJar(jar))>>
    /\ UNCHANGED <<cache, now>>

(***************************************************************************)
(* authenticate(), lines 2313-2340: the warm-up GET returned; PKCE setup,  *)
(* authorize URL, first GET of followRedirects                             *)
(***************************************************************************)
WarmupResponse(st, verifier) ==
    /\ pc = "warmup"
    /\ UNCHANGED <<lastWrite, peerVars, clientVars>>
    /\ answered' = answered + 1
    /\ codeVerifier' = verifier
    /\ state' = st
    /\ currentUrl' = AuthorizeUrl
    /\ hop' = 0
    /\ jar' = SetCookie(jar, HomeUrl, calls)
    /\ requests' = Append(requests,
           fetchWithCookie(AuthorizeRequest(config, st, verifier),
                           SetCookie(jar, HomeUrl, calls)))
    /\ pc' = "resolve"
    /\ UNCHANGED <<cache, now, calls, config, result, err, cacheBefore,
                   startedAt, cacheWrites, html, formAction, redirectUrl, lastResolve,
                   lastLogin, lastToken>>

(***************************************************************************)
(* followRedirects, lines 2179-2198, then submitLogin, lines 2207-2235:    *)
(* one response of the resolution loop is handled                          *)
(***************************************************************************)
ResolveResponse(res) ==
    /\ pc = "resolve"
    /\ UNCHANGED <<lastWrite, peerVars, clientVars>>
    /\ answered' = answered + 1
    /\ lastResolve' = res
    /\ jar' = SetCookie(jar, currentUrl, calls)
    /\ IF IsRedirect(res.status) THEN
           IF res.location = NoLoc THEN
               /\ Throw(Fail("Redirect without location header"))
               /\ UNCHANGED <<currentUrl, hop, html, formAction, requests>>
           ELSE
               /\ currentUrl' = ResolveUrl(res.location, currentUrl)
               /\ hop' = hop + 1
               /\ UNCHANGED <<html, formAction>>
               /\ IF hop + 1 < HopLimit
                  THEN /\ requests' = Append(requests,
                              fetchWithCookie(
                                  RedirectRequest(ResolveUrl(res.location,
                                                             currentUrl)),
                                  SetCookie(jar, currentUrl, calls)))
                       /\ pc' = "resolve"
                       /\ UNCHANGED <<err, result, cache, cacheWrites>>
                  ELSE /\ Throw(Fail(
                              "Too many redirects while getting login form"))
                       /\ UNCHANGED requests
       ELSE IF ~HasLoginForm(res.page) THEN
           /\ Throw(Fail("Login form not found"))
           /\ UNCHANGED <<currentUrl, hop, html, formAction, requests>>
       ELSE
           /\ html' = res.page
           /\ formAction' = currentUrl
           /\ UNCHANGED <<currentUrl, hop>>
           /\ IF NoFormAction(FormActionAttr(res.page))
              THEN /\ Throw(Fail("No form action URL found"))
                   /\ UNCHANGED requests
              ELSE /\ requests' = Append(requests,
                          fetchWithCookie(
                              LoginRequest(
                                  ResolveUrl(FormActionAttr(res.page),
                                             currentUrl),
                                  SubmitData(res.page, config), currentUrl),
                              SetCookie(jar, currentUrl, calls)))
                   /\ pc' = "submit"
                   /\ UNCHANGED <<err, result, cache, cacheWrites>>
    /\ UNCHANGED <<now, calls, config, cacheBefore, startedAt, codeVerifier, state,
                   redirectUrl, lastLogin, lastToken>>

(***************************************************************************)
(* submitLogin, lines 2237-2272, then authenticate(), lines 2350-2363 and  *)
(* exchangeCodeForToken, lines 2280-2292: the login POST returned          *)
(***************************************************************************)
LoginResponse(res) ==
    /\ pc = "submit"
    /\ UNCHANGED <<lastWrite, peerVars, clientVars>>
    /\ answered' = answered + 1
    /\ lastLogin' = res
    /\ jar' = SetCookie(jar, requests[Len(requests)].url, calls)
    /\ LET out == LoginOutcome(res)
           invalid == ValidateRedirect(out.target, state)
           code == SearchGet(out.target, "code")
       IN IF out.error # NoError THEN
              /\ Throw(out.error)
              /\ UNCHANGED <<redirectUrl, requests>>
          ELSE
              /\ redirectUrl' = out.target
              /\ IF invalid # NoError THEN
                     /\ Throw(invalid)
                     /\ UNCHANGED requests
                 ELSE
                     /\ requests' = Append(requests,
                            TokenRequest(config, code, codeVerifier))
                     /\ pc' = "exchange"
                     /\ UNCHANGED <<err, result, cache, cacheWrites>>
    /\ UNCHANGED <<now, calls, config, cacheBefore, startedAt, codeVerifier, state,
                   currentUrl, hop, html, formAction, lastResolve, lastToken>>

(***************************************************************************)
(* exchangeCodeForToken, lines 2294-2299, then authenticate(), lines       *)
(* 2364-2370 with cacheToken: the token endpoint answered                  *)
(***************************************************************************)
TokenResponse(status, body) ==
    /\ pc = "exchange"
    /\ UNCHANGED jar
    /\ UNCHANGED <<peerVars, clientVars>>
    /\ answered' = answered + 1
    /\ lastToken' = [status |-> status, body |-> body]
    /\ LET out == ExchangeOutcome(status, body)
       IN /\ IF out.cached
             THEN /\ cache' = writeFileSync(cache, cacheToken(body, now))
                  /\ cacheWrites' = cacheWrites + 1
                  /\ lastWrite' = [by |-> "self", token |-> body.access_token,
                                   at |-> now]
             ELSE UNCHANGED <<cache, cacheWrites, lastWrite>>
          /\ IF out.error # NoError
             THEN /\ pc' = "failed"
                  /\ err' = out.error
                  /\ UNCHANGED result
             ELSE /\ pc' = "done"
                  /\ result' = body.access_token
                  /\ UNCHANGED err
    /\ UNCHANGED <<now, calls, config, requests, cacheBefore, startedAt, codeVerifier,
                   state, currentUrl, hop, html, formAction, redirectUrl,
                   lastResolve, lastLogin>>

(***************************************************************************)
(* A pending fetch rejects (connection failure): the call throws           *)
(***************************************************************************)
FetchFails_RetryOnce ==
    /\ pc \in {"warmup", "resolve", "submit", "exchange"}
    /\ UNCHANGED jar
    /\ UNCHANGED <<lastWrite, peerVars, clientVars>>
    /\ answered' = answered + 1
    /\ IF pc = "warmup" /\ Len(requests) < 2
       THEN /\ requests' = Append(requests, WarmupRequest)
            /\ UNCHANGED <<pc, err, result, cache, cacheWrites>>
       ELSE /\ Throw(Fail("fetch failed"))
            /\ UNCHANGED requests
    /\ UNCHANGED <<now, calls, config, cacheBefore, startedAt, codeVerifier,
                   state, currentUrl, hop, html, formAction, redirectUrl,
                   lastResolve, lastLogin, lastToken>>
FetchFails ==
    /\ pc \in {"warmup", "resolve", "submit", "exchange"}
    /\ UNCHANGED jar
    /\ UNCHANGED <<lastWrite, peerVars, clientVars>>
    /\ answered' = answered + 1
    /\ Throw(Fail("fetch failed"))
    /\ UNCHANGED <<now, calls, config, requests, cacheBefore, startedAt, codeVerifier,
                   state, currentUrl, hop, html, formAction, redirectUrl,
                   lastResolve, lastLogin, lastToken>>

(***************************************************************************)
(* The caller has the outcome of the call; a next call may start           *)
(***************************************************************************)
Settled ==
    /\ pc \in {"done", "failed"}
    /\ UNCHANGED jar
    /\ UNCHANGED <<lastWrite, peerVars>>
    /\ answered' = 0
    /\ pc' = "idle"
    /\ config' = NoConfig
    /\ requests' = <<>>
    /\ result' = NoAttr
    /\ err' = NoError
    /\ cacheBefore' = cache
    /\ startedAt' = 0
    /\ cacheWrites' = 0
    /\ FreshLocals
    /\ UNCHANGED <<cache, now, calls>>

Return == Settled /\ UNCHANGED clientVars

(***************************************************************************)
(* The clock advances.  Date.now() is read when a call starts and when the *)
(* token is cached, so time passing at any other await of the flow is seen *)
(* as time passing while the token request is pending.                     *)
(***************************************************************************)
Tick ==
    /\ pc \in {"idle", "exchange"}
    /\ UNCHANGED jar
    /\ UNCHANGED <<lastWrite, peerVars, clientVars>>
    /\ now + TickMs <= MaxNow
    /\ now' = now + TickMs
    /\ UNCHANGED <<cache, calls, pc, config, requests, result, err,
                   cacheBefore, startedAt, cacheWrites, codeVerifier, state, currentUrl,
                   hop, html, formAction, redirectUrl, lastResolve, lastLogin,
                   lastToken, answered>>

Next ==
    \/ \E cfg \in Configs : AuthenticateBegin(cfg)
    \/ \E d \in PkceDraws : WarmupResponse(d[1], d[2])
    \/ \E res \in ResolveResponses : ResolveResponse(res)
    \/ \E res \in LoginResponses : LoginResponse(res)
    \/ \E res \in TokenResponses : TokenResponse(res.status, res.body)
    \/ FetchFails
    \/ Return
    \/ Tick

Spec == Init /\ [][Next]_vars

(***************************************************************************)
(* A second authenticate() call, in another process, on the same cache     *)
(* file.  Its requests are private to it; of its flow only the steps that  *)
(* touch the file or decide its outcome are kept: the cache check (lines   *)
(* 2303-2306), a failure anywhere before the token response, the token     *)
(* response (2362-2366) and the write of cacheToken (2165-2166), which     *)
(* truncates the file before the record is in it.                          *)
(***************************************************************************)
PeerTokenResponses ==
    { [status |-> 200,
       body |-> TokenBody("{token}", "object", "tok_peer", 31, "Bearer",
                          SCOPES)],
      [status |-> 400, body |-> ErrorTokenBody] }

PeerBegin ==
    /\ peerPc = "idle"
    /\ peerRead' = cache
    /\ peerStartedAt' = now
    /\ LET cached == loadCachedToken(cache)
       IN IF CacheHit(cached, now)
          THEN /\ peerPc' = "done"
               /\ peerResult' = cached.access_token
          ELSE /\ peerPc' = "login"
               /\ peerResult' = NoAttr
    /\ UNCHANGED <<cache, now, lastWrite, peerRecord, selfVars>>

PeerLoginFails ==
    /\ peerPc = "login"
    /\ peerPc' = "failed"
    /\ UNCHANGED <<cache, now, lastWrite, peerRead, peerStartedAt,
                   peerRecord, peerResult, selfVars>>

PeerTokenResponse(status, body) ==
    /\ peerPc = "login"
    /\ IF ExchangeOutcome(status, body).cached
       THEN /\ peerRecord' = cacheToken(body, now)
            /\ cache' = TruncatedFile
            /\ peerPc' = "writing"
       ELSE /\ peerPc' = "failed"
            /\ UNCHANGED <<cache, peerRecord>>
    /\ UNCHANGED <<now, lastWrite, peerRead, peerStartedAt, peerResult,
                   selfVars>>

PeerWriteDone ==
    /\ peerPc = "writing"
    /\ cache' = writeFileSync(cache, peerRecord)
    /\ lastWrite' = [by |-> "peer", token |-> peerRecord.access_token,
                     at |-> now]
    /\ peerResult' = peerRecord.access_token
    /\ peerPc' = "done"
    /\ UNCHANGED <<now, peerRead, peerStartedAt, peerRecord, selfVars>>

\* the answers this process gets while the two calls race
RaceResolveResponses ==
    { [status |-> 200, location |-> NoLoc, page |-> LoginPage] }
RaceLoginResponses ==
    { [status |-> 302, location |-> GoodTarget("ab"), body |-> EmptyBody],
      [status |-> 403, location |-> NoTarget, body |-> EmptyBody] }
RaceTokenResponses ==
    { [status |-> 200,
       body |-> TokenBody("{token}", "object", "tok_new", ei, "Bearer",
                          SCOPES)] : ei \in {29, 31} }
    \cup { [status |-> 400, body |-> ErrorTokenBody] }

NextRace ==
    \/ \E cfg \in Configs : AuthenticateBegin(cfg)
    \/ \E d \in PkceDraws : WarmupResponse(d[1], d[2])
    \/ \E res \in RaceResolveResponses : ResolveResponse(res)
    \/ \E res \in RaceLoginResponses : LoginResponse(res)
    \/ \E res \in RaceTokenResponses : TokenResponse(res.status, res.body)
    \/ FetchFails
    \/ Return
    \/ Tick
    \/ PeerBegin
    \/ PeerLoginFails
    \/ \E res \in PeerTokenResponses : PeerTokenResponse(res.status, res.body)
    \/ PeerWriteDone

SpecRace == Init /\ [][NextRace]_vars

(***************************************************************************)
(* Calls made one after the other with any of the configurations, against  *)
(* every answer of the token endpoint                                      *)
(***************************************************************************)
NextRepeat ==
    \/ \E cfg \in AllConfigs : AuthenticateBegin(cfg)
    \/ \E d \in PkceDraws : WarmupResponse(d[1], d[2])
    \/ \E res \in RaceResolveResponses : ResolveResponse(res)
    \/ \E res \in RaceLoginResponses : LoginResponse(res)
    \/ \E res \in TokenResponses : TokenResponse(res.status, res.body)
    \/ FetchFails
    \/ Return
    \/ Tick

SpecRepeat == Init /\ [][NextRepeat]_vars

(***************************************************************************)
(* The TripIt client (class TripIt, lines 34-890)                          *)
(*                                                                         *)
(* A JS object is a function from its field paths to strings: a nested     *)
(* field is named by its path ("StartDateTime.date"), a path outside the   *)
(* domain is undefined, and a JSON boolean is written "true" or "false".   *)
(***************************************************************************)
Get(o, k) == IF k \in DOMAIN o THEN o[k] ELSE NoAttr

\* id.includes("-"), on the identifiers of the modelled inputs
Includes(id) == id \in {"t-1", "h-1", "f-1", "r-1", "a-1", "s-1", "s-2"}

\* utils.ts normalizeTime; the modelled times of two parts are listed
normalizeTime(time) ==
    IF Falsy(time) THEN NoAttr
    ELSE IF time \in {"09:30", "15:00"} THEN time \o ":00"
    ELSE time

\* utils.ts clean, on an object: undefined and null fields are dropped
clean(obj) == [k \in { x \in DOMAIN obj : obj[x] # NoAttr } |-> obj[k]]

\* utils.ts normalizeArray: a node is absent, one object or an array
NoNode == [kind |-> "none", items |-> <<>>]
normalizeArray(node) == IF node.kind = "none" THEN <<>> ELSE node.items

\* utils.ts toBoolean, on undefined, booleans and strings
toBoolean(value) ==
    IF value = NoAttr THEN NoAttr
    ELSE IF value = "true" THEN "true"
    ELSE "false"

\* a ?? b ?? ...
RECURSIVE FirstDefined(_)
FirstDefined(vs) ==
    IF vs = <<>> THEN NoAttr
    ELSE IF Head(vs) # NoAttr THEN Head(vs)
    ELSE FirstDefined(Tail(vs))

\* a || b || ...
RECURSIVE FirstTruthy(_)
FirstTruthy(vs) ==
    IF Len(vs) = 1 THEN Head(vs)
    ELSE IF ~Falsy(Head(vs)) THEN Head(vs)
    ELSE FirstTruthy(Tail(vs))

\* One field of a payload: its path, the top-level key it lies under, the
\* parameter that supplies it (NoAttr: none), the fields of the existing
\* object it falls back to, in order, and how the three are combined.
Row(key, top, param, from, how) ==
    [key |-> key, top |-> top, param |-> param, from |-> from, how |-> how]
\* a top-level field: param ?? existing (with param NoAttr, a copy)
Field(key, param) == Row(key, key, param, <<key>>, "??")
\* a top-level flag of the existing object, passed through toBoolean
Flag(key) == Row(key, key, NoAttr, <<key>>, "bool")
\* a nested field: param ?? existing
Sub(top, name, param) ==
    Row(top \o "." \o name, top, param, <<top \o "." \o name>>, "??")
\* a time: normalizeTime(param || "") ?? existing
Time(top, param) ==
    Row(top \o ".time", top, param, <<top \o ".time">>, "time")
\* the parent trip: params.tripId || existing.trip_uuid || existing.trip_id,
\* under trip_uuid or trip_id by the format of the identifier
TripKeys ==
    { Row("trip_uuid", "trip_uuid", "tripId", <<"trip_uuid", "trip_id">>,
          "tripKey"),
      Row("trip_id", "trip_id", "tripId", <<"trip_uuid", "trip_id">>,
          "tripKey") }
\* the five Address fields, each supplied by the parameter of its name
\* except address, which streetParam supplies
AddressRows(streetParam) ==
    { Sub("Address", "address", streetParam), Sub("Address", "city", "city"),
      Sub("Address", "state", "state"), Sub("Address", "zip", "zip"),
      Sub("Address", "country", "country") }

\* the value a row puts into the payload; NoAttr is undefined
RowValue(row, params, existing) ==
    LET chain == <<Get(params, row.param)>>
                 \o [i \in 1..Len(row.from) |-> Get(existing, row.from[i])]
    IN CASE row.how = "??" -> FirstDefined(chain)
         [] row.how = "||" -> FirstTruthy(chain)
         [] row.how = "time" ->
               FirstDefined(<<normalizeTime(IF Falsy(Head(chain)) THEN ""
                                            ELSE Head(chain))>>
                            \o Tail(chain))
         [] row.how = "bool" -> toBoolean(Get(existing, row.from[1]))
         [] row.how = "bool??" ->
               IF Head(chain) # NoAttr THEN Head(chain)
               ELSE toBoolean(Get(existing, row.from[1]))
         [] row.how = "truthy" ->
               IF Falsy(FirstDefined(chain)) THEN NoAttr
               ELSE FirstDefined(chain)
         [] row.how = "tripKey" ->
               IF Falsy(FirstTruthy(chain)) THEN NoAttr
               ELSE IF (row.key = "trip_uuid") = Includes(FirstTruthy(chain))
               THEN FirstTruthy(chain)
               ELSE NoAttr
         [] OTHER -> NoAttr

\* the object literal a table describes, for these params and this existing
\* object
Literal(table, params, existing) ==
    [k \in { row.key : row \in table } |->
        RowValue(CHOOSE row \in table : row.key = k, params, existing)]

\* utils.ts orderObjectByKeys: only the keys of the order array are kept
\* (the order of the keys is not modelled); table tells the top-level key
\* of a path
orderObjectByKeys(table, obj, orderArray) ==
    [k \in { x \in DOMAIN obj :
               (CHOOSE row \in table : row.key = x).top \in orderArray }
        |-> obj[k]]

\* constants.ts
TRIP_UPDATE_FIELD_ORDER ==
    {"primary_location", "TripPurposes", "is_private", "start_date",
     "display_name", "is_expensible", "end_date", "description"}
LODGING_FIELD_ORDER ==
    {"uuid", "trip_uuid", "trip_id", "is_client_traveler", "display_name",
     "Image", "supplier_name", "supplier_conf_num", "booking_rate",
     "is_purchased", "notes", "total_cost", "StartDateTime", "EndDateTime",
     "Address"}
AIR_FIELD_ORDER ==
    {"uuid", "trip_uuid", "trip_id", "is_client_traveler", "display_name",
     "Image", "supplier_name", "supplier_conf_num", "is_purchased", "notes",
     "total_cost", "Segment"}
AIR_SEGMENT_FIELD_ORDER ==
    {"uuid", "StartDateTime", "EndDateTime", "start_city_name",
     "start_country_code", "end_city_name", "end_country_code",
     "marketing_airline", "marketing_flight_number", "aircraft",
     "service_class"}
TRANSPORT_FIELD_ORDER ==
    {"uuid", "trip_uuid", "trip_id", "is_client_traveler", "display_name",
     "Image", "is_purchased", "is_tripit_booking",
     "has_possible_cancellation", "Segment"}
TRANSPORT_SEGMENT_FIELD_ORDER ==
    {"uuid", "StartLocationAddress", "StartDateTime", "EndLocationAddress",
     "EndDateTime", "vehicle_description", "start_location_name",
     "end_location_name", "confirmation_num", "carrier_name"}
ACTIVITY_FIELD_ORDER ==
    {"uuid", "trip_uuid", "trip_id", "is_client_traveler", "display_name",
     "Image", "is_purchased", "notes", "StartDateTime", "EndDateTime",
     "Address", "location_name"}

\* The object literals of the update operations: the rows of the object,
\* those of its one segment, and the order arrays they are filtered by.
UpdateTable(resource) ==
    CASE resource = "trip" ->
            \* updateTrip, lines 167-191
            [object |->
                { Field("primary_location", "primaryLocation"),
                  Row("is_private", "is_private", "isPrivate",
                      <<"is_private">>, "bool??"),
                  Field("start_date", "startDate"),
                  Field("display_name", "displayName"),
                  Row("is_expensible", "is_expensible", "isExpensible",
                      <<"is_expensible">>, "bool??"),
                  Field("end_date", "endDate"),
                  Row("TripPurposes.purpose_type_code", "TripPurposes",
                      "tripPurpose", <<"TripPurposes.purpose_type_code">>,
                      "truthy"),
                  Row("description", "description", "description",
                      <<"description">>, "truthy") },
             segment |-> {},
             order |-> TRIP_UPDATE_FIELD_ORDER, segmentOrder |-> {}]
      [] resource = "lodging" ->
            \* updateHotel, lines 308-367
            [object |->
                { Field("uuid", NoAttr), Flag("is_client_traveler"),
                  Field("display_name", NoAttr),
                  Row("supplier_name", "supplier_name", "hotelName",
                      <<"supplier_name", "display_name">>, "??"),
                  Field("supplier_conf_num", "supplierConfNum"),
                  Field("booking_rate", "bookingRate"),
                  Flag("is_purchased"),
                  Field("notes", "notes"),
                  Field("total_cost", "totalCost"),
                  Sub("StartDateTime", "date", "checkInDate"),
                  Time("StartDateTime", "checkInTime"),
                  Row("StartDateTime.timezone", "StartDateTime", "timezone",
                      <<"StartDateTime.timezone", "EndDateTime.timezone">>,
                      "||"),
                  Sub("EndDateTime", "date", "checkOutDate"),
                  Time("EndDateTime", "checkOutTime"),
                  Row("EndDateTime.timezone", "EndDateTime", "timezone",
                      <<"EndDateTime.timezone", "StartDateTime.timezone">>,
                      "||") }
                \cup AddressRows("street") \cup TripKeys,
             segment |-> {},
             order |-> LODGING_FIELD_ORDER, segmentOrder |-> {}]
      [] resource = "air" ->
            \* updateFlight, lines 495-557
            [object |->
                { Field("uuid", NoAttr), Flag("is_client_traveler"),
                  Field("display_name", "displayName"),
                  Field("supplier_name", "supplierName"),
                  Field("supplier_conf_num", "supplierConfNum"),
                  Flag("is_purchased"),
                  Field("notes", "notes"),
                  Field("total_cost", "totalCost") }
                \cup TripKeys,
             segment |->
                { Field("uuid", NoAttr),
                  Sub("StartDateTime", "date", "segment.startDate"),
                  Time("StartDateTime", "segment.startTime"),
                  Sub("StartDateTime", "timezone", "segment.startTimezone"),
                  Sub("EndDateTime", "date", "segment.endDate"),
                  Time("EndDateTime", "segment.endTime"),
                  Sub("EndDateTime", "timezone", "segment.endTimezone"),
                  Field("start_city_name", "segment.startCityName"),
                  Field("start_country_code", "segment.startCountryCode"),
                  Field("end_city_name", "segment.endCityName"),
                  Field("end_country_code", "segment.endCountryCode"),
                  Row("marketing_airline", "marketing_airline",
                      "segment.marketingAirline",
                      <<"marketing_airline_code", "marketing_airline">>,
                      "??"),
                  Field("marketing_flight_number",
                        "segment.marketingFlightNumber"),
                  Field("aircraft", "segment.aircraft"),
                  Field("service_class", "segment.serviceClass") },
             order |-> AIR_FIELD_ORDER,
             segmentOrder |-> AIR_SEGMENT_FIELD_ORDER]
      [] resource = "transport" ->
            \* updateTransport, lines 675-734
            [object |->
                { Field("uuid", NoAttr), Flag("is_client_traveler"),
                  Field("display_name", "displayName"),
                  Flag("is_purchased"), Flag("is_tripit_booking"),
                  Flag("has_possible_cancellation") }
                \cup TripKeys,
             segment |->
                { Field("uuid", NoAttr),
                  Sub("StartLocationAddress", "address", "startAddress"),
                  Sub("StartDateTime", "date", "startDate"),
                  Time("StartDateTime", "startTime"),
                  Sub("StartDateTime", "timezone", "timezone"),
                  Sub("EndLocationAddress", "address", "endAddress"),
                  Sub("EndDateTime", "date", "endDate"),
                  Time("EndDateTime", "endTime"),
                  Sub("EndDateTime", "timezone", "timezone"),
                  Field("vehicle_description", "vehicleDescription"),
                  Field("start_location_name", "startLocationName"),
                  Field("end_location_name", "endLocationName"),
                  Field("confirmation_num", "confirmationNum"),
                  Field("carrier_name", "carrierName") },
             order |-> TRANSPORT_FIELD_ORDER,
             segmentOrder |-> TRANSPORT_SEGMENT_FIELD_ORDER]
      [] OTHER ->
            \* updateActivity, lines 835-878
            [object |->
                { Field("uuid", NoAttr), Flag("is_client_traveler"),
                  Field("display_name", "displayName"),
                  Flag("is_purchased"),
                  Field("notes", "notes"),
                  Sub("StartDateTime", "date", "startDate"),
                  Time("StartDateTime", "startTime"),
                  Sub("StartDateTime", "timezone", "timezone"),
                  Sub("EndDateTime", "date", "endDate"),
                  Time("EndDateTime", "endTime"),
                  Sub("EndDateTime", "timezone", "timezone"),
                  Field("location_name", "locationName") }
                \cup AddressRows("address") \cup TripKeys,
             segment |-> {},
             order |-> ACTIVITY_FIELD_ORDER, segmentOrder |-> {}]

\* The object literals of the create operations: the rows of the object and
\* those of each segment.  There is no existing object, so every row yields
\* the value of its parameter (a time, normalizeTime of it).
CreateTable(resource) ==
    CASE resource = "trip" ->
            \* createTrip, lines 132-137
            [object |->
                { Field("display_name", "displayName"),
                  Field("start_date", "startDate"),
                  Field("end_date", "endDate"),
                  Field("primary_location", "primaryLocation") },
             segment |-> {}]
      [] resource = "lodging" ->
            \* createHotel, lines 244-272
            [object |->
                { Field("supplier_name", "hotelName"),
                  Field("supplier_conf_num", "supplierConfNum"),
                  Field("booking_rate", "bookingRate"),
                  Field("notes", "notes"),
                  Field("total_cost", "totalCost"),
                  Sub("StartDateTime", "date", "checkInDate"),
                  Time("StartDateTime", "checkInTime"),
                  Sub("StartDateTime", "timezone", "timezone"),
                  Sub("EndDateTime", "date", "checkOutDate"),
                  Time("EndDateTime", "checkOutTime"),
                  Sub("EndDateTime", "timezone", "timezone") }
                \cup AddressRows("street") \cup TripKeys,
             segment |-> {}]
      [] resource = "air" ->
            \* createFlight, lines 416-447
            [object |->
                { Field("trip_uuid", "tripId"),
                  Field("display_name", "displayName"),
                  Field("supplier_name", "supplierName"),
                  Field("supplier_conf_num", "supplierConfNum"),
                  Field("notes", "notes"),
                  Field("total_cost", "totalCost") },
             segment |->
                { Sub("StartDateTime", "date", "startDate"),
                  Time("StartDateTime", "startTime"),
                  Sub("StartDateTime", "timezone", "startTimezone"),
                  Sub("EndDateTime", "date", "endDate"),
                  Time("EndDateTime", "endTime"),
                  Sub("EndDateTime", "timezone", "endTimezone"),
                  Field("start_city_name", "startCityName"),
                  Field("start_country_code", "startCountryCode"),
                  Field("end_city_name", "endCityName"),
                  Field("end_country_code", "endCountryCode"),
                  Field("marketing_airline", "marketingAirline"),
                  Field("marketing_flight_number", "marketingFlightNumber"),
                  Field("aircraft", "aircraft"),
                  Field("service_class", "serviceClass") }]
      [] resource = "transport" ->
            \* createTransport, lines 606-635; display_name is TransportName
            [object |-> TripKeys,
             segment |->
                { Sub("StartLocationAddress", "address", "startAddress"),
                  Sub("StartDateTime", "date", "startDate"),
                  Time("StartDateTime", "startTime"),
                  Sub("StartDateTime", "timezone", "timezone"),
                  Sub("EndLocationAddress", "address", "endAddress"),
                  Sub("EndDateTime", "date", "endDate"),
                  Time("EndDateTime", "endTime"),
                  Sub("EndDateTime", "timezone", "timezone"),
                  Field("vehicle_description", "vehicleDescription"),
                  Field("start_location_name", "startLocationName"),
                  Field("end_location_name", "endLocationName"),
                  Field("confirmation_num", "confirmationNum"),
                  Field("carrier_name", "carrierName") }]
      [] OTHER ->
            \* createActivity, lines 776-801
            [object |->
                { Field("display_name", "displayName"),
                  Sub("StartDateTime", "date", "startDate"),
                  Time("StartDateTime", "startTime"),
                  Sub("StartDateTime", "timezone", "timezone"),
                  Sub("EndDateTime", "date", "endDate"),
                  Time("EndDateTime", "endTime"),
                  Sub("EndDateTime", "timezone", "timezone"),
                  Field("location_name", "locationName") }
                \cup AddressRows("address") \cup TripKeys,
             segment |-> {}]

\* the name of createTransport, lines 597-605 (the arrow of the source is
\* written ->)
TransportName(params) ==
    IF ~Falsy(Get(params, "displayName")) THEN params["displayName"]
    ELSE LET from == FirstTruthy(<<Get(params, "startLocationName"),
                                   Get(params, "startAddress")>>)
             to == FirstTruthy(<<Get(params, "endLocationName"),
                                 Get(params, "endAddress")>>)
         IN IF ~Falsy(from) /\ ~Falsy(to) THEN from \o " -> " \o to
            ELSE IF ~Falsy(from) THEN from
            ELSE IF ~Falsy(to) THEN to
            ELSE "Transport"

\* a payload: the fields of the object and, for flights and transports, its
\* segments
Payload(fields, segments) == [fields |-> fields, Segment |-> segments]

\* an object of a response: its fields and its Segment node
Object(fields, node) == [kind |-> "object", fields |-> fields, Segment |-> node]

\* the name of a resource in the error messages of the update operations
Named(resource) ==
    CASE resource = "trip" -> "Trip"
      [] resource = "lodging" -> "Hotel"
      [] resource = "air" -> "Flight"
      [] resource = "transport" -> "Transport"
      [] OTHER -> "Activity"

\* endpoint(version, path)
endpoint(version, path) ==
    API_BASE_URL \o "/" \o version \o "/" \o path \o "/format/json"

\* identifierEndpoint(action, resource, id)
identifierEndpoint(action, resource, id) ==
    IF Includes(id)
    THEN endpoint("v2", action \o "/" \o resource \o "/uuid/" \o id)
    ELSE endpoint("v1", action \o "/" \o resource \o "/id/" \o id)

\* a request of apiGet or apiPost, as handed to fetch
ApiRequest(method, url, token, payload) ==
    [method |-> method, url |-> url, authorization |-> "Bearer " \o token,
     payload |-> payload]

\* an operation of the client: what it does, on which resource, its params
\* and, for createFlight, the segments among them
Op(kind, resource, params, segments) ==
    [kind |-> kind, resource |-> resource, params |-> params,
     segments |-> segments]

\* params.uuid || params.id
Identifier(params) ==
    FirstTruthy(<<Get(params, "uuid"), Get(params, "id")>>)

\* the payload of the replace POST of an update operation; the segment the
\* operation works on is normalizeArray(existing.Segment)[0]
UpdatePayload(resource, params, existing) ==
    LET table == UpdateTable(resource)
    IN Payload(orderObjectByKeys(table.object,
                   clean(Literal(table.object, params, existing.fields)),
                   table.order),
               IF table.segment = {} THEN <<>>
               ELSE <<orderObjectByKeys(table.segment,
                         clean(Literal(table.segment, params,
                                 Head(normalizeArray(existing.Segment)))),
                         table.segmentOrder)>>)

\* the payload of the create POST of a create operation
CreatePayload(op) ==
    LET table == CreateTable(op.resource)
        object == Literal(table.object, op.params, EmptyMap)
    IN CASE op.resource = "air" ->
               Payload(clean(object),
                       [i \in 1..Len(op.segments) |->
                           clean(Literal(table.segment, op.segments[i],
                                         EmptyMap))])
         [] op.resource = "transport" ->
               Payload(clean(MapSet(object, "display_name",
                                    TransportName(op.params))),
                       <<clean(Literal(table.segment, op.params,
                                       EmptyMap))>>)
         [] OTHER -> Payload(clean(object), <<>>)

\* the request an operation starts with, once getAccessToken returned token
FirstRequest(op, token) ==
    CASE op.kind = "list" ->
            \* listTrips, lines 101-109
            ApiRequest("GET",
                API_BASE_URL \o "/v2/list/trip?format=json&page_size="
                \o op.params["pageSize"] \o "&page_num="
                \o op.params["pageNum"]
                \o (IF op.params["past"] = "true" THEN "&past=true" ELSE ""),
                token, Payload(EmptyMap, <<>>))
      [] op.kind = "get" /\ op.resource = "trip" ->
            \* getTrip, lines 111-121: "/format/json" of identifierEndpoint
            \* is replaced
            ApiRequest("GET",
                IF Includes(op.params["id"])
                THEN API_BASE_URL \o "/v2/get/trip/uuid/" \o op.params["id"]
                     \o "/include_objects/true/format/json"
                ELSE API_BASE_URL \o "/v1/get/trip/id/" \o op.params["id"]
                     \o "/include_objects/true/format/json",
                token, Payload(EmptyMap, <<>>))
      [] op.kind = "get" ->
            ApiRequest("GET",
                       identifierEndpoint("get", op.resource,
                                          op.params["id"]),
                       token, Payload(EmptyMap, <<>>))
      [] op.kind = "delete" ->
            ApiRequest("GET",
                       identifierEndpoint("delete", op.resource,
                                          op.params["id"]),
                       token, Payload(EmptyMap, <<>>))
      [] op.kind = "create" ->
            ApiRequest("POST", endpoint("v2", "create/" \o op.resource),
                       token, CreatePayload(op))
      [] OTHER ->
            ApiRequest("GET",
                       identifierEndpoint("get", op.resource,
                                          Identifier(op.params)),
                       token, Payload(EmptyMap, <<>>))

\* the replace POST of an update operation
ReplaceRequest(op, existing, token) ==
    ApiRequest("POST",
               endpoint("v2", "replace/" \o op.resource \o "/uuid/"
                              \o existing.fields["uuid"]),
               token, UpdatePayload(op.resource, op.params, existing))

\* the errors of the client
NotAuthenticated == Fail("Not authenticated. Call authenticate() first.")
IdentifierRequired == Fail("Either uuid or id parameter is required")
NotFound(op) ==
    Fail(Named(op.resource) \o " with identifier " \o Identifier(op.params)
         \o " not found")
NoSegment(op) ==
    Fail(Named(op.resource) \o " with identifier " \o Identifier(op.params)
         \o " has no segment")

\* getAccessToken throws: !this.accessToken
getAccessTokenThrows_Never(token) == FALSE
getAccessTokenThrows(token) == Falsy(token)

(***************************************************************************)
(* Inputs of the client: the objects the service holds, its answers, and   *)
(* the operations a caller starts                                          *)
(***************************************************************************)
\* what the GET of an update operation may find under the key of its
\* resource: the object (a flight of one leg, where Segment is one object,
\* of two legs, where it is an array, and without Segment; a transport with
\* and without Segment), or an object that came without uuid
FetchedObjects(resource) ==
    LET AirSegmentOf(uuid, date, from, to, number) ==
            "uuid" :> uuid @@ "StartDateTime.date" :> date
            @@ "StartDateTime.time" :> "08:00:00"
            @@ "StartDateTime.timezone" :> "Asia/Tokyo"
            @@ "EndDateTime.date" :> date @@ "EndDateTime.time" :> "10:00:00"
            @@ "EndDateTime.timezone" :> "Asia/Tokyo"
            @@ "start_city_name" :> from @@ "start_country_code" :> "JP"
            @@ "end_city_name" :> to @@ "end_country_code" :> "JP"
            @@ "marketing_airline" :> "Air Company"
            @@ "marketing_airline_code" :> "AC"
            @@ "marketing_flight_number" :> number
        FirstLeg == AirSegmentOf("s-1", "2027-01-01", "Tokyo", "Osaka", "12")
        SecondLeg == AirSegmentOf("s-2", "2027-01-02", "Osaka", "Naha", "34")
        TransportSegment ==
            "uuid" :> "s-1" @@ "StartLocationAddress.address" :> "Airport"
            @@ "StartDateTime.date" :> "2027-01-01"
            @@ "StartDateTime.time" :> "12:00:00"
            @@ "StartDateTime.timezone" :> "Asia/Tokyo"
            @@ "EndLocationAddress.address" :> "Hotel"
            @@ "EndDateTime.date" :> "2027-01-01"
            @@ "EndDateTime.time" :> "13:00:00"
            @@ "EndDateTime.timezone" :> "Asia/Tokyo"
            @@ "carrier_name" :> "Bus"
    IN {Object("display_name" :> "Unknown", NoNode)}
       \cup
       CASE resource = "trip" ->
            { Object("uuid" :> "t-1" @@ "primary_location" :> "Kyoto"
                     @@ "is_private" :> "true"
                     @@ "start_date" :> "2027-01-01"
                     @@ "display_name" :> "Japan"
                     @@ "is_expensible" :> "false"
                     @@ "end_date" :> "2027-01-09" @@ "description" :> ""
                     @@ "TripPurposes.purpose_type_code" :> "L",
                     NoNode) }
         [] resource = "lodging" ->
            { Object("uuid" :> "h-1" @@ "trip_uuid" :> "t-1"
                     @@ "trip_id" :> "7" @@ "is_client_traveler" :> "true"
                     @@ "display_name" :> "Stay" @@ "supplier_name" :> "Inn"
                     @@ "supplier_conf_num" :> "C1"
                     @@ "is_purchased" :> "false"
                     @@ "notes" :> "late arrival"
                     @@ "StartDateTime.date" :> "2027-01-01"
                     @@ "StartDateTime.time" :> "15:00:00"
                     @@ "StartDateTime.timezone" :> "Asia/Tokyo"
                     @@ "EndDateTime.date" :> "2027-01-03"
                     @@ "EndDateTime.time" :> "11:00:00"
                     @@ "EndDateTime.timezone" :> "Asia/Tokyo"
                     @@ "Address.address" :> "1 Main St"
                     @@ "Address.city" :> "Kyoto"
                     @@ "Address.country" :> "JP",
                     NoNode) }
         [] resource = "air" ->
            { Object("uuid" :> "f-1" @@ "trip_uuid" :> "t-1"
                     @@ "is_client_traveler" :> "true"
                     @@ "display_name" :> "Flight"
                     @@ "supplier_name" :> "Air Company"
                     @@ "is_purchased" :> "true",
                     node) :
                node \in { [kind |-> "object", items |-> <<FirstLeg>>],
                           [kind |-> "array",
                            items |-> <<FirstLeg, SecondLeg>>],
                           NoNode } }
         [] resource = "transport" ->
            { Object("uuid" :> "r-1" @@ "trip_id" :> "7"
                     @@ "is_client_traveler" :> "true"
                     @@ "display_name" :> "Ride"
                     @@ "is_purchased" :> "false"
                     @@ "is_tripit_booking" :> "false"
                     @@ "has_possible_cancellation" :> "false",
                     node) :
                node \in { [kind |-> "object",
                            items |-> <<TransportSegment>>],
                           NoNode } }
         [] OTHER ->
            { Object("uuid" :> "a-1" @@ "trip_uuid" :> "t-1"
                     @@ "is_client_traveler" :> "true"
                     @@ "display_name" :> "Tour"
                     @@ "is_purchased" :> "false"
                     @@ "notes" :> "bring water"
                     @@ "StartDateTime.date" :> "2027-01-02"
                     @@ "StartDateTime.time" :> "09:00:00"
                     @@ "StartDateTime.timezone" :> "Asia/Tokyo"
                     @@ "EndDateTime.date" :> "2027-01-02"
                     @@ "EndDateTime.time" :> "12:00:00"
                     @@ "EndDateTime.timezone" :> "Asia/Tokyo"
                     @@ "Address.address" :> "2 Hill Rd"
                     @@ "location_name" :> "Gate",
                     NoNode) }

\* The answers of the API to the request of an operation: status, text,
\* whether JSON.parse accepts the text, and the object the parsed body
\* holds under the key of the resource (kind "missing": none).  The GET of
\* an update operation (fetching) is answered with what it may find.
ApiAnswers(fetching, resource) ==
    LET Missing ==
            [kind |-> "missing", fields |-> EmptyMap, Segment |-> NoNode]
    IN { [status |-> 404, text |-> "Not found", json |-> "invalid",
          object |-> Missing],
         [status |-> 200, text |-> "<html>", json |-> "invalid",
          object |-> Missing],
         [status |-> 200, text |-> "{}", json |-> "object",
          object |-> Missing] }
       \cup IF fetching
            THEN { [status |-> 200, text |-> "{...}", json |-> "object",
                    object |-> o] : o \in FetchedObjects(resource) }
            ELSE {}

\* the params of the update operations: none, a uuid alone, an id with a new
\* name and a new time
UpdateParams(resource) ==
    { EmptyMap,
      "uuid" :> (CASE resource = "trip" -> "t-1"
                   [] resource = "lodging" -> "h-1"
                   [] resource = "air" -> "f-1"
                   [] resource = "transport" -> "r-1"
                   [] OTHER -> "a-1"),
      CASE resource = "trip" ->
              "id" :> "42" @@ "displayName" :> "Renamed"
              @@ "isPrivate" :> "false"
        [] resource = "lodging" ->
              "id" :> "42" @@ "hotelName" :> "Renamed"
              @@ "checkInTime" :> "09:30"
        [] resource = "air" ->
              "id" :> "42" @@ "displayName" :> "Renamed"
              @@ "segment.startTime" :> "09:30"
        [] resource = "transport" ->
              "id" :> "42" @@ "displayName" :> "Renamed"
              @@ "startTime" :> "09:30" @@ "tripId" :> "t-1"
        [] OTHER ->
              "id" :> "42" @@ "displayName" :> "Renamed"
              @@ "startTime" :> "09:30" }

\* the params of the create operations of the child resources
CreateParams(resource, tripId) ==
    CASE resource = "lodging" ->
            "tripId" :> tripId @@ "hotelName" :> "Inn"
            @@ "checkInDate" :> "2027-02-01" @@ "checkInTime" :> "15:00"
            @@ "checkOutDate" :> "2027-02-02" @@ "checkOutTime" :> "11:00:00"
            @@ "timezone" :> "UTC" @@ "street" :> "1 Main St"
            @@ "city" :> "Kyoto" @@ "country" :> "JP"
      [] resource = "air" ->
            "tripId" :> tripId @@ "displayName" :> "Flight"
            @@ "supplierName" :> "Air Company"
      [] resource = "transport" ->
            "tripId" :> tripId @@ "startDate" :> "2027-02-01"
            @@ "startTime" :> "09:30" @@ "endDate" :> "2027-02-01"
            @@ "endTime" :> "15:00" @@ "timezone" :> "UTC"
            @@ "startAddress" :> "Airport" @@ "endAddress" :> "Hotel"
      [] OTHER ->
            "tripId" :> tripId @@ "displayName" :> "Tour"
            @@ "startDate" :> "2027-02-01" @@ "startTime" :> "09:30"
            @@ "endDate" :> "2027-02-01" @@ "endTime" :> "15:00"
            @@ "timezone" :> "UTC" @@ "address" :> "2 Hill Rd"
            @@ "locationName" :> "Gate"

\* the operations a caller starts; a parent trip is named by a uuid or by a
\* numeric id, and createFlight has one leg
Operations ==
    LET Resources == {"trip", "lodging", "air", "transport", "activity"}
        NewLeg ==
            "startDate" :> "2027-02-01" @@ "startTime" :> "09:30"
            @@ "startTimezone" :> "UTC" @@ "endDate" :> "2027-02-01"
            @@ "endTime" :> "15:00" @@ "endTimezone" :> "UTC"
            @@ "startCityName" :> "Tokyo" @@ "startCountryCode" :> "JP"
            @@ "endCityName" :> "Osaka" @@ "endCountryCode" :> "JP"
            @@ "marketingAirline" :> "AC"
            @@ "marketingFlightNumber" :> "12"
    IN { Op("list", "trip",
            "pageSize" :> "100" @@ "pageNum" :> "1" @@ "past" :> "false",
            <<>>),
         Op("create", "trip",
            "displayName" :> "Japan" @@ "startDate" :> "2027-01-01"
            @@ "endDate" :> "2027-01-09", <<>>) }
       \cup { Op("get", r, "id" :> "t-1", <<>>) : r \in Resources }
       \cup { Op("delete", r, "id" :> "42", <<>>) : r \in Resources }
       \cup { Op("create", r, CreateParams(r, t),
                 IF r = "air" THEN <<NewLeg>> ELSE <<>>) :
                r \in Resources \ {"trip"}, t \in {"t-1", "7"} }
       \cup UNION { { Op("update", r, p, <<>>) : p \in UpdateParams(r) } :
                    r \in Resources }

(***************************************************************************)
(* Operations of the client                                                *)
(***************************************************************************)
\* everything but the client
callVars == <<cache, now, lastWrite, peerVars, calls, pc, config, requests,
              result, err, cacheBefore, startedAt, cacheWrites, codeVerifier,
              state, currentUrl, hop, html, formAction, redirectUrl,
              lastResolve, lastLogin, lastToken, answered, jar>>

\* the operation throws e
ApiThrow(e) ==
    /\ apiPc' = "failed"
    /\ apiErr' = e

(***************************************************************************)
(* TripIt.authenticate, lines 42-45: authenticate(this.config) settled;    *)
(* the token is stored when the call resolved                              *)
(***************************************************************************)
ClientReturn ==
    /\ Settled
    /\ IF pc = "done"
       THEN /\ accessToken' = result
            /\ authenticated' = TRUE
       ELSE UNCHANGED <<accessToken, authenticated>>
    /\ UNCHANGED <<apiPc, apiOp, apiRequests, apiErr, apiFetched>>

(***************************************************************************)
(* A resource operation is called: the identifier check of an update       *)
(* operation, then apiGet or apiPost up to its fetch (lines 71-75, 85-93). *)
(* this.accessToken changes only when an authenticate() settles, so an     *)
(* operation called while one is pending is called at one position of it.  *)
(***************************************************************************)
ApiCall(op) ==
    /\ apiPc = "idle"
    /\ pc \in {"idle", "exchange"}
    /\ apiOp' = op
    /\ apiFetched' = NoObject
    /\ IF op.kind = "update" /\ Falsy(Identifier(op.params))
       THEN /\ ApiThrow(IdentifierRequired)
            /\ apiRequests' = <<>>
       ELSE IF getAccessTokenThrows(accessToken)
       THEN /\ ApiThrow(NotAuthenticated)
            /\ apiRequests' = <<>>
       ELSE /\ apiPc' = IF op.kind = "update" THEN "get" ELSE "await"
            /\ apiErr' = NoError
            /\ apiRequests' = <<FirstRequest(op, accessToken)>>
    /\ UNCHANGED <<accessToken, authenticated, callVars>>

(***************************************************************************)
(* The pending fetch of the operation was answered: apiGet / apiPost from  *)
(* res.text() on (lines 76-78, 94-96), and for the GET of an update        *)
(* operation the rest of the operation up to the fetch of its POST; the    *)
(* segment of a flight or transport is normalizeArray(Segment)[0]          *)
(***************************************************************************)
ApiResponse(res) ==
    /\ apiPc \in {"get", "await"}
    /\ IF ~ResOk(res.status)
       THEN /\ ApiThrow(Error("API error", res.status, res.text))
            /\ UNCHANGED <<apiRequests, apiFetched>>
       ELSE IF res.json = "invalid"
       THEN /\ ApiThrow(Fail("Unexpected token in JSON"))
            /\ UNCHANGED <<apiRequests, apiFetched>>
       ELSE IF apiPc = "await"
       THEN /\ apiPc' = "done"
            /\ UNCHANGED <<apiErr, apiRequests, apiFetched>>
       ELSE /\ apiFetched' = res.object
            /\ IF Falsy(Get(res.object.fields, "uuid"))
               THEN /\ ApiThrow(NotFound(apiOp))
                    /\ UNCHANGED apiRequests
               ELSE IF /\ apiOp.resource \in {"air", "transport"}
                       /\ normalizeArray(res.object.Segment) = <<>>
               THEN /\ ApiThrow(NoSegment(apiOp))
                    /\ UNCHANGED apiRequests
               ELSE IF getAccessTokenThrows(accessToken)
               THEN /\ ApiThrow(NotAuthenticated)
                    /\ UNCHANGED apiRequests
               ELSE /\ apiPc' = "await"
                    /\ apiRequests' =
                         Append(apiRequests,
                                ReplaceRequest(apiOp, res.object,
                                               accessToken))
                    /\ UNCHANGED apiErr
    /\ UNCHANGED <<apiOp, accessToken, authenticated, callVars>>

\* the pending fetch of the operation rejects
ApiFetchFails ==
    /\ apiPc \in {"get", "await"}
    /\ ApiThrow(Fail("fetch failed"))
    /\ UNCHANGED <<apiOp, apiRequests, apiFetched, accessToken,
                   authenticated, callVars>>

\* the caller has the outcome of the operation
ApiReturn ==
    /\ apiPc \in {"done", "failed"}
    /\ apiPc' = "idle"
    /\ apiOp' = NoOp
    /\ apiRequests' = <<>>
    /\ apiErr' = NoError
    /\ apiFetched' = NoObject
    /\ UNCHANGED <<accessToken, authenticated, callVars>>

NextClient ==
    \/ \E cfg \in Configs : AuthenticateBegin(cfg)
    \/ \E d \in PkceDraws : WarmupResponse(d[1], d[2])
    \/ \E res \in RaceResolveResponses : ResolveResponse(res)
    \/ \E res \in RaceLoginResponses : LoginResponse(res)
    \/ \E res \in RaceTokenResponses : TokenResponse(res.status, res.body)
    \/ FetchFails
    \/ ClientReturn
    \/ \E op \in Operations : ApiCall(op)
    \/ \E res \in ApiAnswers(apiPc = "get", apiOp.resource) : ApiResponse(res)
    \/ ApiFetchFails
    \/ ApiReturn

SpecClient == Init /\ [][NextClient]_vars

(***************************************************************************)
(* Properties                                                              *)
(***************************************************************************)
InCall == pc # "idle"
FullFlow == InCall /\ Len(requests) >= 1

RequestsOfKind(k) == { i \in 1..Len(requests) : requests[i].kind = k }
NumRequests(k) == Cardinality(RequestsOfKind(k))

CacheUntouched == cache = cacheBefore /\ cacheWrites = 0

\* the cache file held a record with a numeric expiresAt when the call began
HadRecord == cacheBefore.kind = "record" /\ cacheBefore.expiresAt # NoNum

\* C1: a call that finds a cached record with expiresAt > now returns at
\* once with the cached access_token, has handed no request to fetch and has
\* not written the cache file.
C1_FreshCacheNoNetwork ==
    (InCall /\ HadRecord /\ cacheBefore.expiresAt > startedAt)
        => /\ pc = "done"
           /\ result = cacheBefore.access_token
           /\ requests = <<>>
           /\ CacheUntouched

C1_Witness ==
    /\ pc = "done"
    /\ HadRecord
    /\ cacheBefore.expiresAt > startedAt
    /\ result = "tok_old"
    /\ requests = <<>>

\* C2: a call that finds a cached record with expiresAt <= now (equality
\* included) runs the full flow: its first request is the warm-up GET, and
\* when it returns, the value is the access_token of the token response of
\* this call, written to the cache by this call, not the cached one.
C2_StaleCacheFullFlow ==
    (InCall /\ HadRecord /\ cacheBefore.expiresAt <= startedAt)
        => /\ Len(requests) >= 1
           /\ requests[1] = WarmupRequest
           /\ pc = "done" =>
                /\ NumRequests("token") = 1
                /\ lastToken.status \in 200..299
                /\ result = lastToken.body.access_token
                /\ cacheWrites = 1

C2_Witness ==
    /\ pc = "done"
    /\ HadRecord
    /\ cacheBefore.expiresAt = startedAt
    /\ requests[1] = WarmupRequest
    /\ result = "tok_new"

\* submitLogin returned a redirect target in this call
HasTarget == InCall /\ redirectUrl # NoTarget

\* C3: when the redirect target has no state parameter or one that differs
\* from the state of this attempt, the call fails, has sent no token request
\* and has not written the cache; the failure is "OAuth state mismatch"
\* whenever the target parses as a URL (an unparsable target fails in the
\* URL constructor, before the comparison).
C3_StateMismatchFailsClosed ==
    (HasTarget /\ (~redirectUrl.parsable
                   \/ SearchGet(redirectUrl, "state") # state))
        => /\ pc = "failed"
           /\ redirectUrl.parsable => err = Fail("OAuth state mismatch")
           /\ NumRequests("token") = 0
           /\ CacheUntouched

\* a state that differs from the generated one in case only
C3_Witness ==
    /\ pc = "failed"
    /\ err = Fail("OAuth state mismatch")
    /\ redirectUrl.parsable
    /\ SearchGet(redirectUrl, "state") # state
    /\ Lower(SearchGet(redirectUrl, "state")) = Lower(state)
    /\ SearchGet(redirectUrl, "code") = "XYZ"

\* C4: in a call that takes the full flow the cache file is written if and
\* only if the call returns an access token, and then exactly once with that
\* token; a call that ended in an error has left the file as it found it.
C4_NoPartialSuccess ==
    FullFlow
        => /\ (cacheWrites > 0) <=> (pc = "done")
           /\ pc = "done" =>
                /\ cacheWrites = 1
                /\ ~Falsy(result)
                /\ cache.kind = "record"
                /\ cache.access_token = result
           /\ pc # "done" => CacheUntouched

\* a failure at the last step, with a record in the cache file
C4_Witness ==
    /\ FullFlow
    /\ pc = "failed"
    /\ lastToken.status = 200
    /\ cacheBefore.kind = "record"
    /\ cache = cacheBefore

\* C5: a token response with a status outside 200..299 makes the call fail
\* with "Token exchange failed" carrying that status and the response body,
\* and the cache file is not written.
C5_TokenExchangeFailure ==
    (InCall /\ lastToken.status # 0 /\ lastToken.status \notin 200..299)
        => /\ pc = "failed"
           /\ err = Error("Token exchange failed", lastToken.status,
                          lastToken.body.text)
           /\ CacheUntouched

C5_Witness ==
    /\ pc = "failed"
    /\ lastToken.status = 400
    /\ err = Error("Token exchange failed", 400,
                   "{\"error\":\"invalid_grant\"}")
    /\ cacheBefore.kind = "record"

\* C6: a 2xx token response whose JSON object has no access_token, or an
\* empty one, makes the call fail with "No access_token in response", and
\* the cache file is not written.
C6_NoAccessTokenFails ==
    (InCall /\ lastToken.status \in 200..299
            /\ lastToken.body.json = "object"
            /\ lastToken.body.access_token \in {NoAttr, ""})
        => /\ pc = "failed"
           /\ err = Fail("No access_token in response")
           /\ CacheUntouched

C6_Witness ==
    /\ pc = "failed"
    /\ lastToken.status = 200
    /\ lastToken.body.access_token = ""
    /\ err = Fail("No access_token in response")

TooManyRedirects == Fail("Too many redirects while getting login form")

\* C7: followRedirects never issues more than 5 GETs; while every response
\* so far was a redirect it followed, it has issued one GET more than it has
\* followed redirects, and after the 5th such response it has failed with
\* "Too many redirects while getting login form" without a 6th GET; that
\* failure occurs in no other case.
C7_HopLimit ==
    /\ NumRequests("resolve") <= 5
    /\ hop <= 5
    /\ pc = "resolve" => (hop < 5 /\ NumRequests("resolve") = hop + 1)
    /\ hop = 5 => (pc = "failed" /\ err = TooManyRedirects
                   /\ NumRequests("resolve") = 5)
    /\ err = TooManyRedirects => hop = 5

C7_Witness ==
    /\ pc = "failed"
    /\ err = TooManyRedirects
    /\ NumRequests("resolve") = 5
    /\ lastResolve.status \in {302, 303}

\* C8 (as claimed): a 301, 302, 303, 307 or 308 response with a Location
\* header is followed, never parsed for the login form.
C8_Every3xxFollowed ==
    (InCall /\ lastResolve.status \in {301, 302, 303, 307, 308}
            /\ lastResolve.location # NoLoc)
        => /\ err # Fail("Login form not found")
           /\ html = EmptyPage
           /\ NumRequests("login") = 0

\* the login POST of the call
LoginPost == requests[CHOOSE i \in RequestsOfKind("login") : TRUE]
Posted == InCall /\ NumRequests("login") = 1

NamedInputs(page) ==
    { i \in 1..Len(FormInputs(page)) : ~Falsy(FormInputs(page)[i].name) }
InputNames(page) == { FormInputs(page)[i].name : i \in NamedInputs(page) }
\* the value attribute of the document, "" when the input has none
DocValue(page, i) ==
    IF FormInputs(page)[i].value = NoAttr THEN ""
    ELSE FormInputs(page)[i].value
\* the last input of a name, in document order
LastInput(page, n) ==
    CHOOSE i \in NamedInputs(page) :
        /\ FormInputs(page)[i].name = n
        /\ \A j \in NamedInputs(page) :
              FormInputs(page)[j].name = n => j <= i

FormFound == InCall /\ html # EmptyPage

\* C10 (as claimed): the login POST goes to the form's action resolved
\* against the page URL, and to the page URL itself when the form declares
\* no action; the call does not fail for lack of an action.
C10_ActionFallsBackToPage ==
    FormFound
        => /\ err # Fail("No form action URL found")
           /\ Posted
           /\ LoginPost.url =
                (IF FormActionAttr(html) = NoLoc THEN formAction
                 ELSE ResolveUrl(FormActionAttr(html), formAction))

\* the login POST of this call has been answered
LoginAnswered == InCall /\ lastLogin.status # 0
\* text of the error element of a 200 body: .error-message, else .alert-error
ErrorText(b) == IF b.errorMessage # "" THEN b.errorMessage ELSE b.alertError
\* the meta refresh content carries a URL= target
HasMetaTarget(b) == b.meta.prefix = "0;URL=" /\ b.meta.target # NoTarget
TokenPost == requests[CHOOSE i \in RequestsOfKind("token") : TRUE]

\* C11: the answer to the login POST is classified by its status: 403 fails
\* with "Login failed (403)" whatever the body holds; 302 or 303 with a
\* Location yields that Location unchanged whatever the body holds; 200 is
\* decided from the body; any other status fails with "Unexpected login
\* response status: <status>".  Whenever submitLogin fails, the call has
\* failed and has sent no token request.
C11_StatusPriority ==
    LoginAnswered =>
        /\ lastLogin.status = 403 =>
             /\ pc = "failed"
             /\ err = Fail("Login failed (403)")
        /\ (lastLogin.status \in {302, 303} /\ lastLogin.location # NoTarget)
             => redirectUrl = lastLogin.location
        /\ lastLogin.status = 200 =>
             /\ redirectUrl \in {NoTarget, lastLogin.body.meta.target,
                                 lastLogin.body.script}
             /\ redirectUrl = NoTarget =>
                  err.msg \in {"Login failed: ",
                               "Could not find redirect URL in login response"}
        /\ lastLogin.status \notin {200, 302, 303, 403} =>
             /\ pc = "failed"
             /\ err = Error("Unexpected login response status: ",
                            lastLogin.status, "")
        /\ redirectUrl = NoTarget =>
             /\ pc = "failed"
             /\ err # NoError
             /\ NumRequests("token") = 0

\* a 302 whose body carries an error element and a meta refresh to another
\* target: the Location is taken and the token request goes out
C11_Witness ==
    /\ LoginAnswered
    /\ lastLogin.status = 302
    /\ lastLogin.body.errorMessage # ""
    /\ lastLogin.body.meta.target # lastLogin.location
    /\ redirectUrl = lastLogin.location
    /\ NumRequests("token") = 1

\* C12: a 200 answer to the login POST is inspected in a fixed order: an
\* error element with text fails the login with that text, even when a meta
\* refresh or a script redirect is present; otherwise the meta refresh
\* target is taken, even when a script redirect is present; otherwise the
\* script target; with none of them the call fails with "Could not find
\* redirect URL in login response".
C12_BodyOrder ==
    (LoginAnswered /\ lastLogin.status = 200) =>
        LET b == lastLogin.body
        IN IF ErrorText(b) # "" THEN
               /\ pc = "failed"
               /\ err = Error("Login failed: ", 0, ErrorText(b))
               /\ redirectUrl = NoTarget
           ELSE IF HasMetaTarget(b) THEN redirectUrl = b.meta.target
           ELSE IF b.script # NoTarget THEN redirectUrl = b.script
           ELSE /\ pc = "failed"
                /\ err = Fail("Could not find redirect URL in login response")
                /\ redirectUrl = NoTarget

\* an error element next to a usable meta refresh and a usable script
C12_Witness ==
    /\ LoginAnswered
    /\ lastLogin.status = 200
    /\ lastLogin.body.errorMessage = "Invalid password"
    /\ HasMetaTarget(lastLogin.body)
    /\ lastLogin.body.script # NoTarget
    /\ SearchGet(lastLogin.body.script, "state") = state
    /\ pc = "failed"
    /\ err = Error("Login failed: ", 0, "Invalid password")

\* C13: a 200 body without error text whose meta refresh content is
\* "0;URL=/callback?code=XYZ&state=s" yields that target; the call goes on
\* to the token request with code XYZ when s is the state it generated, and
\* fails with "OAuth state mismatch", without a token request, for every
\* other generated state.
C13_MetaRefreshTarget ==
    \A s \in States :
        (/\ LoginAnswered
         /\ lastLogin.status = 200
         /\ ErrorText(lastLogin.body) = ""
         /\ lastLogin.body.meta = Meta("0;URL=", GoodTarget(s)))
        => /\ redirectUrl = GoodTarget(s)
           /\ state = s =>
                /\ NumRequests("token") = 1
                /\ TokenPost.body["code"] = "XYZ"
                /\ err # Fail("OAuth state mismatch")
           /\ state # s =>
                /\ pc = "failed"
                /\ err = Fail("OAuth state mismatch")
                /\ NumRequests("token") = 0

\* the meta target carries the generated state, the script target another
C13_Witness ==
    /\ LoginAnswered
    /\ lastLogin.status = 200
    /\ lastLogin.body.meta = Meta("0;URL=", GoodTarget(state))
    /\ lastLogin.body.script \notin {NoTarget, GoodTarget(state)}
    /\ pc = "exchange"
    /\ TokenPost.body["code"] = "XYZ"

\* C14: a parsable redirect target with the generated state but no code, or
\* an empty one, fails the call with "Authorization code not found in
\* redirect" and no token request; the state is checked first, so a target
\* with a wrong state and no code fails with "OAuth state mismatch".
C14_CodeRequired ==
    (HasTarget /\ redirectUrl.parsable
               /\ SearchGet(redirectUrl, "code") \in {NoAttr, ""})
        => /\ pc = "failed"
           /\ NumRequests("token") = 0
           /\ CacheUntouched
           /\ SearchGet(redirectUrl, "state") = state =>
                err = Fail("Authorization code not found in redirect")
           /\ SearchGet(redirectUrl, "state") # state =>
                err = Fail("OAuth state mismatch")

\* the generated state came back with an empty code
C14_Witness ==
    /\ HasTarget
    /\ SearchGet(redirectUrl, "state") = state
    /\ SearchGet(redirectUrl, "code") = ""
    /\ pc = "failed"
    /\ err = Fail("Authorization code not found in redirect")

\* C15: nothing is retried: a call sends the warm-up GET, the login POST and
\* the token POST at most once each and at most 5 GETs to find the login
\* form; the step that fails sends nothing more and leaves its error, and a
\* failed call takes no further step but handing that error to the caller.
C15_NoRetry ==
    [][/\ (NumRequests("warmup") <= 1)'
       /\ (NumRequests("login") <= 1)'
       /\ (NumRequests("token") <= 1)'
       /\ (NumRequests("resolve") <= 5)'
       /\ (pc # "failed" /\ pc' = "failed") =>
            /\ requests' = requests
            /\ err' # NoError
       /\ pc = "failed" =>
            /\ pc' = "idle"
            /\ cache' = cache]_vars

\* the token endpoint refuses after four redirects were followed: one
\* warm-up GET, five GETs, one login POST, one token POST, and the failure
C15_Witness ==
    /\ pc = "failed"
    /\ err.msg = "Token exchange failed"
    /\ NumRequests("warmup") = 1
    /\ NumRequests("resolve") = 5
    /\ NumRequests("login") = 1
    /\ NumRequests("token") = 1

\* position of a request in the flow
Rank(k) ==
    CASE k = "warmup" -> 1
      [] k = "resolve" -> 2
      [] k = "login" -> 3
      [] OTHER -> 4

\* C16: the steps of a call run in one order with at most one request
\* outstanding: warm-up GET, the GETs of the form resolution, login POST,
\* token POST, cache write, return.  The login POST is sent only after a
\* page with a username and a password input was found, the token POST only
\* after the returned state equalled the generated one, and the cache is
\* written only after a token response that carries an access_token.
C16_StrictOrder ==
    InCall =>
        /\ Len(requests) - answered \in {0, 1}
        /\ pc \in {"warmup", "resolve", "submit", "exchange"}
             => Len(requests) - answered = 1
        /\ requests # <<>> => requests[1].kind = "warmup"
        /\ \A j \in 2..Len(requests) :
             LET before == Rank(requests[j - 1].kind)
                 this == Rank(requests[j].kind)
             IN /\ this - before \in {0, 1}
                /\ this # 2 => this - before = 1
        /\ NumRequests("login") >= 1 =>
             /\ HasInput(html, "username")
             /\ HasInput(html, "password")
             /\ lastResolve.page = html
             /\ lastResolve.status \notin {302, 303}
        /\ NumRequests("token") >= 1 =>
             /\ state \in States
             /\ redirectUrl.parsable
             /\ SearchGet(redirectUrl, "state") = state
        /\ cacheWrites >= 1 =>
             /\ NumRequests("token") = 1
             /\ answered = Len(requests)
             /\ lastToken.status \in 200..299
             /\ lastToken.body.json = "object"
             /\ lastToken.body.access_token \notin {NoAttr, ""}
        /\ (pc = "done" /\ requests # <<>>) => cacheWrites = 1

\* a call that went through every step
C16_Witness ==
    /\ pc = "done"
    /\ Len(requests) >= 5
    /\ answered = Len(requests)
    /\ requests[Len(requests)].kind = "token"
    /\ cacheWrites = 1
    /\ result = "tok_new"

\* C17: a token cached at time t with expires_in = E is stored with
\* expiresAt = t + (E - 30) * 1000, and a call at time t' is served from a
\* cached record exactly when t' is below the record's expiresAt; so a token
\* is never served in the last 30 seconds of its lifetime or later.
C17_ExpiryMargin ==
    /\ (pc = "done" /\ cacheWrites = 1 /\ lastToken.body.expires_in # NoNum)
         => /\ cache.expires_in = lastToken.body.expires_in
            /\ cache.expiresAt = now + (lastToken.body.expires_in - 30) * 1000
    /\ (InCall /\ HadRecord /\ cacheBefore.expires_in # NoNum)
         => ((pc = "done" /\ requests = <<>>
                          /\ result = cacheBefore.access_token)
             <=> startedAt < cacheBefore.expiresAt)

\* a token issued with expires_in = 31 to an earlier call is served from the
\* cache less than one second after it was cached
C17_Witness ==
    /\ pc = "done"
    /\ requests = <<>>
    /\ result = "tok_new"
    /\ cacheBefore.expires_in = 31
    /\ startedAt < cacheBefore.expiresAt
    /\ startedAt + 1000 > cacheBefore.expiresAt

\* the cache file held no cached-token record when the call began: no file,
\* content that is not JSON, or a JSON object without a token or an expiry
NoCachedRecord ==
    \/ cacheBefore.kind # "record"
    \/ cacheBefore.access_token = NoAttr
    \/ cacheBefore.expiresAt = NoNum

\* C18 (as claimed): when the cache file is missing, unreadable or holds
\* anything but a well-formed cached-token record, the call behaves as on a
\* cache miss: it starts the full login flow with the warm-up GET, returns
\* only a token the endpoint issued to it, and fails only with an error of
\* the flow.
C18_BadCacheIsMiss ==
    (InCall /\ NoCachedRecord)
        => /\ Len(requests) >= 1
           /\ requests[1] = WarmupRequest
           /\ pc = "done" => result = lastToken.body.access_token

\* both calls are between steps that touch the file and neither is running
BothFinished ==
    /\ pc \in {"done", "failed"}
    /\ peerPc \in {"done", "failed"}

ThroughJar(i) == requests[i].kind \in {"warmup", "resolve", "login"}
\* cookies the responses to the requests before the i-th set for origin o
SetBefore(i, o) ==
    { Cookie(requests[j].url.origin, calls) :
        j \in { k \in 1..(i - 1) : requests[k].url.origin = o } }

\* C20: a call in the full flow starts with an empty cookie jar, and its
\* warm-up GET, resolution GETs and login POST all use that jar: each of them
\* carries exactly the cookies that the answers to the earlier requests of
\* the same call set for its origin, and never a cookie set in another call.
C20_OneJarPerCall ==
    InCall =>
        /\ requests # <<>> => requests[1].cookies = {}
        /\ \A i \in 1..Len(requests) :
             /\ ThroughJar(i) =>
                  requests[i].cookies = SetBefore(i, requests[i].url.origin)
             /\ \A c \in requests[i].cookies : c.call = calls
        /\ FullFlow => \A c \in jar : c.call = calls

\* the login POST of a second full flow carries the cookie the answers of
\* this flow set for its origin, after an earlier flow had filled its own jar
C20_Witness ==
    /\ calls = 2
    /\ NumRequests("login") = 1
    /\ LoginPost.url.origin # BASE_URL
    /\ LoginPost.cookies = {Cookie(LoginPost.url.origin, 2)}
    /\ Cardinality(jar) = 2
    /\ cacheBefore.access_token = "tok_new"

\* the authorize GET of this attempt: the first GET of the form resolution
Authorized == InCall /\ Len(requests) >= 2
AuthorizeGet == requests[2]

\* C21: within an attempt the code_challenge of the authorize request is the
\* S256 digest of the code_verifier the token request of that attempt sends,
\* and the state of the authorize request is the value the state of the
\* redirect target is compared with; an attempt holds no verifier or state
\* before it has drawn its own, so none is carried over from an earlier one.
C21_PkceBinding ==
    /\ Authorized =>
         /\ AuthorizeGet.kind = "resolve"
         /\ AuthorizeGet.url = AuthorizeUrl
         /\ AuthorizeGet.params["code_challenge_method"] = "S256"
         /\ AuthorizeGet.params["code_challenge"] = S256(codeVerifier)
         /\ AuthorizeGet.params["state"] = state
         /\ NumRequests("token") = 1 =>
              /\ AuthorizeGet.params["code_challenge"]
                   = S256(TokenPost.body["code_verifier"])
              /\ SearchGet(redirectUrl, "state")
                   = AuthorizeGet.params["state"]
         /\ (HasTarget /\ redirectUrl.parsable) =>
              (err = Fail("OAuth state mismatch")
               <=> SearchGet(redirectUrl, "state")
                     # AuthorizeGet.params["state"])
    /\ (pc \in {"idle", "warmup"} \/ (pc = "done" /\ requests = <<>>)) =>
         /\ codeVerifier = NoAttr
         /\ state = NoAttr

\* the token request of a second attempt carries the verifier whose digest
\* that attempt's authorize request carried
C21_Witness ==
    /\ calls = 2
    /\ NumRequests("token") = 1
    /\ TokenPost.body["code_verifier"] = "v2"
    /\ AuthorizeGet.params["code_challenge"] = "ch_v2"
    /\ AuthorizeGet.params["state"] = "AB"
    /\ pc = "done"

\* C23 (as claimed): the login POST carries an Origin and a Referer that both
\* identify the page that served the login form, whatever its host: the
\* Referer is the URL of that page and the Origin is the origin of that URL.
C23_OriginRefererOfPage ==
    Posted
        => /\ LoginPost.referer = formAction
           /\ LoginPost.origin = formAction.origin

\* C25: a record a call has written to the cache file consists of exactly
\* access_token, expires_in, token_type, scope and expiresAt, each taken or
\* computed from the token response; none of them is the code verifier, the
\* code challenge, the state, the authorization code or a credential of the
\* call, and the record holds no cookie.
C25_OnlyTokenPersisted ==
    (InCall /\ cacheWrites >= 1)
        => /\ DOMAIN cache = {"kind", "access_token", "expires_in",
                              "token_type", "scope", "expiresAt"}
           /\ cache.kind = "record"
           /\ cache.access_token = lastToken.body.access_token
           /\ cache.expires_in = lastToken.body.expires_in
           /\ cache.token_type = lastToken.body.token_type
           /\ cache.scope = lastToken.body.scope
           /\ cache.expiresAt \in Int
           /\ \A f \in {"access_token", "token_type", "scope"} :
                /\ cache[f] \notin {codeVerifier, S256(codeVerifier), state,
                                    SearchGet(redirectUrl, "code"),
                                    config.clientId, config.clientSecret,
                                    config.username, config.password}
                /\ \A c \in jar : cache[f] # c.origin

\* a call that held a verifier, a state, a code, credentials and cookies
\* has written the record
C25_Witness ==
    /\ pc = "done"
    /\ cacheWrites = 1
    /\ codeVerifier = "v1"
    /\ state = "ab"
    /\ SearchGet(redirectUrl, "code") = "XYZ"
    /\ config.password = "pass1"
    /\ jar # {}
    /\ cache.access_token = "tok_new"
    /\ cache.expires_in = 31

\* C26 (as claimed): whenever a call returns, by cache hit or by the full
\* flow, the value it returns is a non-empty access token, never undefined
\* or the empty string.
C26_ReturnsToken ==
    pc = "done" => result \notin {NoAttr, ""}

\* every string a request carries: query and body values, URL parts, Origin
\* and Referer
RequestStrings(r) ==
    { r.params[k] : k \in DOMAIN r.params }
    \cup { r.body[k] : k \in DOMAIN r.body }
    \cup { c.origin : c \in r.cookies }
    \cup { r.url.origin, r.url.path, r.origin, r.referer.origin,
           r.referer.path }
\* the configuration without its clientSecret
Redacted(cfg) == [cfg EXCEPT !.clientSecret = NoAttr]
\* the request as built, before fetchWithCookie attached cookies
Bare(r) == [r EXCEPT !.cookies = {}]

\* C22: no request of a call (warm-up, authorize, resolution GETs, login
\* POST, token POST) carries the configured clientSecret in any field; the
\* body of the token POST consists of exactly grant_type=authorization_code,
\* code, redirect_uri, client_id and code_verifier; and every request is the
\* one the flow builds from the configuration with its clientSecret blanked,
\* so runs that differ only in clientSecret issue the same requests.
C22_SecretNeverSent ==
    InCall =>
        /\ \A i \in 1..Len(requests) :
             /\ config.clientSecret \notin RequestStrings(requests[i])
             /\ requests[i].kind = "warmup"
                  => Bare(requests[i]) = WarmupRequest
             /\ (requests[i].kind = "resolve" /\ i = 2)
                  => Bare(requests[i])
                       = AuthorizeRequest(Redacted(config), state,
                                          codeVerifier)
             /\ (requests[i].kind = "resolve" /\ i > 2)
                  => requests[i].params = EmptyMap
             /\ requests[i].kind = "login"
                  => requests[i].body = SubmitData(html, Redacted(config))
             /\ requests[i].kind = "token"
                  => /\ DOMAIN requests[i].body
                          = {"grant_type", "code", "redirect_uri",
                             "client_id", "code_verifier"}
                     /\ requests[i].body["grant_type"]
                          = "authorization_code"
                     /\ requests[i].body["code"]
                          = SearchGet(redirectUrl, "code")
                     /\ requests[i].body["redirect_uri"] = REDIRECT_URI
                     /\ requests[i].body["client_id"] = config.clientId
                     /\ requests[i].body["code_verifier"] = codeVerifier
                     /\ requests[i].params = EmptyMap

\* a call configured with the other clientSecret has sent all four kinds of
\* request
C22_Witness ==
    /\ pc = "done"
    /\ config.clientSecret = "secret2"
    /\ NumRequests("warmup") = 1
    /\ NumRequests("resolve") >= 1
    /\ NumRequests("login") = 1
    /\ NumRequests("token") = 1

\* the call began at the instant an earlier call of this process, which ran
\* the full flow and succeeded, wrote its token to the cache file
RightAfterFullFlow ==
    /\ InCall
    /\ cacheWrites = 0
    /\ lastWrite.by = "self"
    /\ lastWrite.at = startedAt

\* C24 (as claimed): a call made immediately after a call that succeeded
\* through the full flow returns the same access token as a cache hit, with
\* no request, for every token response the token endpoint can return.
C24_ImmediateRepeatHits ==
    RightAfterFullFlow
        => /\ pc = "done"
           /\ requests = <<>>
           /\ result = lastWrite.token

\* C24 (amended): the same, for every token response whose expires_in is a
\* number greater than the 30 s expiry margin.
C24_ImmediateRepeatHitsPastMargin ==
    (/\ RightAfterFullFlow
     /\ cacheBefore.expires_in # NoNum
     /\ cacheBefore.expires_in > ExpiryMarginSec)
        => /\ pc = "done"
           /\ requests = <<>>
           /\ result = lastWrite.token
           /\ CacheUntouched

\* a second call, right after a full flow that was issued a token for 31 s,
\* has returned that token
C24_Witness ==
    /\ RightAfterFullFlow
    /\ calls = 2
    /\ cacheBefore.expires_in = 31
    /\ pc = "done"
    /\ result = "tok_new"

\* C27: a call that finds an unexpired record in the cache file returns the
\* access token of that record and has sent no request, whichever
\* configuration it was given: its clientId, username and password are not
\* looked at, so the credentials of another account get the same token.
C27_HitIgnoresConfig ==
    \A cfg \in AllConfigs :
        (/\ InCall
         /\ config = cfg
         /\ HadRecord
         /\ cacheBefore.expiresAt > startedAt)
            => /\ pc = "done"
               /\ requests = <<>>
               /\ result = cacheBefore.access_token
               /\ err = NoError

\* a call with another account's credentials was served the token that the
\* full flow of an earlier call, with the first account's, was issued
C27_Witness ==
    /\ calls = 2
    /\ config.username = "user2"
    /\ lastWrite.by = "self"
    /\ cacheWrites = 0
    /\ pc = "done"
    /\ requests = <<>>
    /\ result = "tok_new"
    /\ result = lastWrite.token

\* an operation of the client is running or has just ended
InOperation == apiPc # "idle"
\* the running operation is an update operation, called with or without an
\* identifier
Updating == InOperation /\ apiOp.kind = "update"
Identified == ~Falsy(Identifier(apiOp.params))

\* the parts of C28 that hold of a state: no request of an operation exists
\* unless an authenticate() of the client has resolved, and until then an
\* operation has failed without a request, with one of the errors of failed
BlockedUntilAuthenticated(failed) ==
    /\ apiRequests # <<>> => authenticated
    /\ (InOperation /\ ~authenticated)
         => /\ apiPc = "failed"
            /\ apiErr \in failed
            /\ apiRequests = <<>>
\* the part of C28 that holds of a step: the authenticate() of the client
\* that settles as failed leaves this.accessToken as it was
FailedKeepsToken ==
    (pc = "failed" /\ pc' = "idle") => accessToken' = accessToken

\* C28 (as claimed): no resource request is sent before an authenticate() of
\* the client has completed successfully; until then every operation fails
\* with "Not authenticated. Call authenticate() first." and without a
\* request; and a failed authenticate() leaves the stored token unchanged.
C28_NotAuthenticatedUntilLogin ==
    [][/\ BlockedUntilAuthenticated({NotAuthenticated})'
       /\ FailedKeepsToken]_vars

\* C28 (amended): the same, except that an update operation called with
\* neither uuid nor id fails with "Either uuid or id parameter is required",
\* which is tested before the token is looked at; every other operation
\* fails with "Not authenticated. Call authenticate() first.".
C28_NoRequestUntilLogin ==
    [][/\ BlockedUntilAuthenticated({NotAuthenticated, IdentifierRequired})'
       /\ (InOperation /\ ~authenticated)'
            => (apiErr = IdentifierRequired
                  <=> (apiOp.kind = "update" /\ ~Identified))'
       /\ FailedKeepsToken]_vars

\* an operation was called while the first authenticate() of the client was
\* pending and has failed as not authenticated; and an authenticate() that
\* failed has left the client without a token
C28_Witness ==
    /\ calls = 1
    /\ pc = "exchange"
    /\ ~authenticated
    /\ accessToken = NoAttr
    /\ apiPc = "failed"
    /\ apiOp.kind = "create"
    /\ apiErr = NotAuthenticated
    /\ apiRequests = <<>>

\* the table of the object and of the segment of an update operation
ObjectTable(resource) == UpdateTable(resource).object
SegmentTable(resource) == UpdateTable(resource).segment
Segmented == apiOp.resource \in {"air", "transport"}

\* the same value, an empty or missing one counting as not sent
SameValue(sent, fetched) ==
    sent = fetched \/ (Falsy(sent) /\ Falsy(fetched))

\* every field of the table that the params do not supply and the fetched
\* object has is in the sent object, with the fetched value; the parent trip
\* counts as one field, held under trip_uuid or else under trip_id
Preserved(table, params, sent, fetched) ==
    \A row \in table :
        (Get(params, row.param) = NoAttr /\ row.key \in DOMAIN fetched)
            => IF row.how = "tripKey"
               THEN row.key = (IF "trip_uuid" \in DOMAIN fetched
                               THEN "trip_uuid" ELSE "trip_id")
                      => SameValue(Get(sent, row.key), fetched[row.key])
               ELSE SameValue(Get(sent, row.key), fetched[row.key])

\* C29 (as claimed): an update operation without uuid and id fails before
\* any request; otherwise, on a client that holds a token, it sends one GET
\* for the existing object and then at most one POST, to
\* replace/<resource>/uuid/<uuid of the fetched object>; when the fetched
\* object has no uuid, or a flight or transport no segment, it fails with the
\* not-found or no-segment error and sends no POST; and the POST carries
\* every field the caller did not supply with the value of the fetched
\* object, in the object and in each of its segments.
C29_ReadThenReplace ==
    Updating =>
        /\ ~Identified
             => /\ apiPc = "failed"
                /\ apiErr = IdentifierRequired
                /\ apiRequests = <<>>
        /\ Identified
             => /\ apiRequests = <<>> => apiErr = NotAuthenticated
                /\ Len(apiRequests) <= 2
                /\ \A i \in 1..Len(apiRequests) :
                     apiRequests[i].method
                       = (IF i = 1 THEN "GET" ELSE "POST")
                /\ Len(apiRequests) >= 1
                     => apiRequests[1].url
                          = identifierEndpoint("get", apiOp.resource,
                                               Identifier(apiOp.params))
        /\ (apiFetched.kind # "none"
               /\ Falsy(Get(apiFetched.fields, "uuid")))
             => /\ apiErr = NotFound(apiOp)
                /\ Len(apiRequests) = 1
        /\ (apiFetched.kind # "none"
               /\ ~Falsy(Get(apiFetched.fields, "uuid"))
               /\ Segmented
               /\ apiFetched.Segment.kind = "none")
             => /\ apiErr = NoSegment(apiOp)
                /\ Len(apiRequests) = 1
        /\ Len(apiRequests) = 2
             => /\ apiRequests[2].url
                     = API_BASE_URL \o "/v2/replace/" \o apiOp.resource
                       \o "/uuid/" \o apiFetched.fields["uuid"]
                       \o "/format/json"
                /\ Preserved(ObjectTable(apiOp.resource), apiOp.params,
                             apiRequests[2].payload.fields,
                             apiFetched.fields)
                /\ Segmented
                     => \A i \in 1..Len(apiFetched.Segment.items) :
                          /\ i <= Len(apiRequests[2].payload.Segment)
                          /\ Preserved(SegmentTable(apiOp.resource),
                                       IF i = 1 THEN apiOp.params
                                       ELSE EmptyMap,
                                       apiRequests[2].payload.Segment[i],
                                       apiFetched.Segment.items[i])

\* C30 (as claimed): the payload of createHotel, createFlight,
\* createTransport and createActivity carries the parent trip under
\* trip_uuid when tripId contains "-" and under trip_id otherwise, and
\* never under both keys.
C30_TripKeyByFormat ==
    (InOperation /\ apiOp.kind = "create" /\ apiOp.resource # "trip"
       /\ apiRequests # <<>>)
        => LET sent == apiRequests[1].payload.fields
               tripId == apiOp.params["tripId"]
           IN IF Includes(tripId)
              THEN /\ Get(sent, "trip_uuid") = tripId
                   /\ "trip_id" \notin DOMAIN sent
              ELSE /\ Get(sent, "trip_id") = tripId
                   /\ "trip_uuid" \notin DOMAIN sent
====
